---- MODULE Spec2Model ----
(***************************************************************************)
(* NeuroFusion-Reactor: the tokamak particle engine (PlasmaPhysics), its   *)
(* particle store and the frame loop that drives it.                       *)
(*                                                                         *)
(* C++ `float` is modelled by a decimal floating-point number with a four  *)
(* digit significand, the exponent range of IEEE binary32 and the IEEE     *)
(* special values: a record [k, m, e] with k = "fin" (value m * 10^e, m = 0 *)
(* or 1000 <= |m| <= 9999), k = "inf" (m = +1 / -1) or k = "nan".  Every   *)
(* arithmetic operator rounds to nearest, overflows to an infinity above   *)
(* FLT_MAX, flushes to zero below the smallest denormal and propagates NaN *)
(* the way IEEE arithmetic does; signed zero is not distinguished.         *)
(***************************************************************************)
EXTENDS Integers, Sequences, FiniteSets, TLC

\* ------------------------------------------------------------------ float
\* Significand modulus: significands are below Mant (four decimal digits).
Mant == 10000

Abs(n) == IF n < 0 THEN -n ELSE n
Sgn(n) == IF n < 0 THEN -1 ELSE IF n > 0 THEN 1 ELSE 0

Pow10(k) ==
    CASE k = 0 -> 1 [] k = 1 -> 10 [] k = 2 -> 100 [] k = 3 -> 1000
      [] k = 4 -> 10000 [] k = 5 -> 100000 [] k = 6 -> 1000000
      [] k = 7 -> 10000000 [] k = 8 -> 100000000 [] OTHER -> 1000000000

FZero == [k |-> "fin", m |-> 0, e |-> 0]
FNaN == [k |-> "nan", m |-> 0, e |-> 0]
FInf(s) == [k |-> "inf", m |-> s, e |-> 0]

IsNaN(x) == x.k = "nan"
IsInf(x) == x.k = "inf"
\* std::isfinite
IsFinite(x) == x.k = "fin"

\* Round the exact integer m * 10^e to a float: four significant digits,
\* overflow above FLT_MAX = 3.402e38, flush to zero below 1.401e-45.
\* a has d decimal digits: the shift that brings it to four (negative when
\* digits are dropped).
Shift(a) ==
    IF a >= 10000
    THEN (IF a >= 1000000
          THEN (IF a >= 100000000 THEN -5 ELSE IF a >= 10000000 THEN -4 ELSE -3)
          ELSE (IF a >= 100000 THEN -2 ELSE -1))
    ELSE (IF a >= 100 THEN (IF a >= 1000 THEN 0 ELSE 1)
          ELSE (IF a >= 10 THEN 2 ELSE 3))

\* A four-digit significand a >= 1 and its exponent, range-checked.
FRange(s, a, e) ==
    IF e > 35 \/ (e = 35 /\ a > 3402) THEN FInf(s)
    ELSE IF e < -48 \/ (e = -48 /\ a < 1401) THEN FZero
    ELSE [k |-> "fin", m |-> s * a, e |-> e]

FRound(m, e) ==
    IF m = 0 THEN FZero
    ELSE LET a == IF m < 0 THEN -m ELSE m
             s == IF m < 0 THEN -1 ELSE 1
             sh == Shift(a)
         IN  IF sh >= 0 THEN FRange(s, a * Pow10(sh), e - sh)
             ELSE LET q == ((a \div Pow10(-sh - 1)) + 5) \div 10
                  IN  IF q >= Mant THEN FRange(s, q \div 10, e - sh + 1)
                      ELSE FRange(s, q, e - sh)

\* A float literal: F(3344, -30) is 3.344e-27f.
F(m, e) == FRound(m, e)

FNeg(x) == IF IsNaN(x) THEN FNaN ELSE [x EXCEPT !.m = -x.m]

FAdd(x, y) ==
    IF IsNaN(x) \/ IsNaN(y) THEN FNaN
    ELSE IF IsInf(x) THEN (IF IsInf(y) /\ y.m # x.m THEN FNaN ELSE x)
    ELSE IF IsInf(y) THEN y
    ELSE IF x.m = 0 THEN y
    ELSE IF y.m = 0 THEN x
    ELSE LET hi == IF x.e >= y.e THEN x ELSE y
             lo == IF x.e >= y.e THEN y ELSE x
             d == hi.e - lo.e
         IN  IF d > 5 THEN hi ELSE FRound(hi.m * Pow10(d) + lo.m, lo.e)

FSub(x, y) == FAdd(x, FNeg(y))

FMul(x, y) ==
    IF IsNaN(x) \/ IsNaN(y) THEN FNaN
    ELSE IF IsInf(x) \/ IsInf(y)
         THEN (IF x.m = 0 \/ y.m = 0 THEN FNaN ELSE FInf(Sgn(x.m) * Sgn(y.m)))
    ELSE FRound(x.m * y.m, x.e + y.e)

FDiv(x, y) ==
    IF IsNaN(x) \/ IsNaN(y) THEN FNaN
    ELSE IF IsInf(x) THEN (IF IsInf(y) THEN FNaN
                           ELSE FInf(x.m * (IF y.m < 0 THEN -1 ELSE 1)))
    ELSE IF IsInf(y) THEN FZero
    ELSE IF y.m = 0 THEN (IF x.m = 0 THEN FNaN ELSE FInf(Sgn(x.m)))
    ELSE LET q == (Abs(x.m) * 100000) \div Abs(y.m)
         IN  FRound(Sgn(x.m) * Sgn(y.m) * q, x.e - y.e - 5)

RECURSIVE ISqrtIter(_, _)
ISqrtIter(n, x) ==
    LET y == (x + n \div x) \div 2
    IN  IF y >= x THEN x ELSE ISqrtIter(n, y)

\* Integer square root (floor), n < 2^31: Newton's iteration from above.
ISqrt(n) ==
    IF n = 0 THEN 0
    ELSE IF n < 100000000
         THEN (IF n < 31640625 THEN ISqrtIter(n, 5625) ELSE ISqrtIter(n, 10000))
         ELSE (IF n < 316234089 THEN ISqrtIter(n, 17783) ELSE ISqrtIter(n, 46340))

\* std::sqrt
FSqrt(x) ==
    IF IsNaN(x) THEN FNaN
    ELSE IF x.m < 0 THEN FNaN
    ELSE IF IsInf(x) THEN x
    ELSE IF x.m = 0 THEN FZero
    ELSE LET odd == (x.e % 2) = 1
             mm == IF odd THEN x.m * 100000 ELSE x.m * 10000
             ee == IF odd THEN x.e - 5 ELSE x.e - 4
         IN  FRound(ISqrt(mm), ee \div 2)

\* std::abs
FAbs(x) == IF IsNaN(x) THEN FNaN ELSE [x EXCEPT !.m = Abs(x.m)]

\* The last of a function's intermediate results.  TLC evaluates the elements
\* of a tuple from left to right, so a function that lists its locals in the
\* order of the code's statements computes them in that order.
InOrder(s) == s[Len(s)]

\* x < y on floats: false when either side is NaN.
FLt(x, y) ==
    IF IsNaN(x) \/ IsNaN(y) THEN FALSE
    ELSE IF IsInf(x) THEN x.m < 0 /\ ~(IsInf(y) /\ y.m < 0)
    ELSE IF IsInf(y) THEN y.m > 0
    ELSE IF Sgn(x.m) # Sgn(y.m) THEN Sgn(x.m) < Sgn(y.m)
    ELSE IF x.m = 0 THEN FALSE
    ELSE IF x.m > 0 THEN x.e < y.e \/ (x.e = y.e /\ x.m < y.m)
    ELSE x.e > y.e \/ (x.e = y.e /\ x.m < y.m)

FGt(x, y) == FLt(y, x)
FLe(x, y) == ~IsNaN(x) /\ ~IsNaN(y) /\ ~FLt(y, x)
FGe(x, y) == FLe(y, x)

\* (float)n for an int n.
FFromInt(n) == IF n < -2147483647 THEN F(-2147, 6) ELSE FRound(n, 0)

INT_MAX == 2147483647
INT_MIN == -2147483647 - 1

\* Whether (int)x is defined: x is finite and its truncation fits an int.
IntInRange(x) ==
    IsFinite(x) /\ (x.m = 0 \/ x.e < 6 \/ (x.e = 6 /\ Abs(x.m) <= 2147))

\* (int)x for x in range: truncation toward zero.
FTrunc(x) ==
    IF x.m = 0 THEN 0
    ELSE IF x.e >= 0 THEN x.m * Pow10(x.e)
    ELSE IF x.e < -4 THEN 0
    ELSE Sgn(x.m) * (Abs(x.m) \div Pow10(-x.e))

\* The values (int)x can take.  Out of range or NaN the conversion is
\* undefined behaviour; builds produce the x86 "integer indefinite" value
\* INT_MIN (cvttss2si) or a saturated value (INT_MAX / INT_MIN, 0 for NaN).
FToIntOutcomes(x) ==
    IF IntInRange(x) THEN {FTrunc(x)}
    ELSE IF IsNaN(x) THEN {INT_MIN, 0}
    ELSE IF x.m > 0 THEN {INT_MIN, INT_MAX}
    ELSE {INT_MIN}

\* std::cos / std::sin.  Angles in the model are drawn as multiples of a
\* quarter turn, so the functions are tabulated there (to four digits).
M_PI == F(3142, -3)
QuarterOf(x) == FTrunc(FAdd(FDiv(x, FDiv(M_PI, F(2, 0))), F(5, -1))) % 4
FCos(x) ==
    IF ~IsFinite(x) THEN FNaN
    ELSE CASE QuarterOf(x) = 0 -> F(1, 0) [] QuarterOf(x) = 2 -> F(-1, 0)
           [] OTHER -> FZero
FSin(x) ==
    IF ~IsFinite(x) THEN FNaN
    ELSE CASE QuarterOf(x) = 1 -> F(1, 0) [] QuarterOf(x) = 3 -> F(-1, 0)
           [] OTHER -> FZero

\* --------------------------------------------------------------- particle
\* PhysicsConstants
DEUTERIUM_MASS == F(3344, -30)
TRITIUM_MASS == F(5008, -30)
HELIUM_MASS == F(6646, -30)
NEUTRON_MASS == F(1675, -30)
ELECTRON_MASS == F(9109, -34)
ELEMENTARY_CHARGE == F(1602, -22)
COULOMB_CONSTANT == F(8988, 6)
BOLTZMANN_CONSTANT == F(1381, -26)
FUSION_THRESHOLD_ENERGY == F(1, -14)
FUSION_CROSS_SECTION == F(1, -28)

Types == {"DEUTERIUM", "TRITIUM", "HELIUM", "NEUTRON", "ELECTRON"}

SpeciesMass(type) ==
    CASE type = "DEUTERIUM" -> DEUTERIUM_MASS
      [] type = "TRITIUM" -> TRITIUM_MASS
      [] type = "HELIUM" -> HELIUM_MASS
      [] type = "NEUTRON" -> NEUTRON_MASS
      [] OTHER -> ELECTRON_MASS

\* Variant of the species table in which every species carries +e.
SpeciesChargeUnit(type) == ELEMENTARY_CHARGE

SpeciesCharge(type) ==
    CASE type = "DEUTERIUM" -> ELEMENTARY_CHARGE
      [] type = "TRITIUM" -> ELEMENTARY_CHARGE
      [] type = "HELIUM" -> FMul(F(2, 0), ELEMENTARY_CHARGE)
      [] type = "NEUTRON" -> FZero
      [] OTHER -> FNeg(ELEMENTARY_CHARGE)

\* createParticle(type, x, y, vx, vy, z, vz).  The field id is a serial
\* number that is not in the code: it names a record so that its index in
\* the store can be followed.
createParticle(type, x, y, vx, vy, z, vz, id) ==
    [type |-> type, x |-> x, y |-> y, z |-> z,
     vx |-> vx, vy |-> vy, vz |-> vz,
     mass |-> SpeciesMass(type), charge |-> SpeciesCharge(type),
     active |-> TRUE, id |-> id]

\* --------------------------------------------------------------- geometry
\* TokamakGeometry
torusMajorR == F(12, -1)
torusMinorR == F(4, -1)

\* sqrt(a*a + b*b + c*c), summed left to right.
Norm3(a, b, c) == FSqrt(FAdd(FAdd(FMul(a, a), FMul(b, b)), FMul(c, c)))

\* sqrt(x*x + z*z): the distance from the torus axis (the y axis).
RadiusXZ(x, z) == FSqrt(FAdd(FMul(x, x), FMul(z, z)))

\* torusSDF, second statement: dxz is the first statement's local.
SdfTube(dxz, y) == FSub(FSqrt(FAdd(FMul(dxz, dxz), FMul(y, y))), torusMinorR)

torusSDF(x, y, z) == SdfTube(FSub(RadiusXZ(x, z), torusMajorR), y)

\* projectToCenterline for rxz = sqrt(x*x + z*z).
CenterlineAt(x, z, rxz) ==
    IF FLt(rxz, F(1, -8)) THEN <<torusMajorR, FZero, FZero>>
    ELSE <<FMul(torusMajorR, FDiv(x, rxz)), FZero, FMul(torusMajorR, FDiv(z, rxz))>>

projectToCenterline(x, y, z) == CenterlineAt(x, z, RadiusXZ(x, z))

\* torusNormal: nx /= len, ny /= len, nz /= len.
NormalScaled(nx, ny, nz, len) == <<FDiv(nx, len), FDiv(ny, len), FDiv(nz, len)>>

\* torusNormal: len = sqrt(nx*nx + ny*ny + nz*nz) + 1e-10f.
NormalOf(nx, ny, nz) ==
    InOrder(<<nx, ny, nz,
              NormalScaled(nx, ny, nz, FAdd(Norm3(nx, ny, nz), F(1, -10)))>>)

\* torusNormal for the four distances it samples.
NormalFrom(d, dx, dy, dz) ==
    InOrder(<<d, dx, dy, dz, NormalOf(FSub(dx, d), FSub(dy, d), FSub(dz, d))>>)

torusNormal(x, y, z) ==
    NormalFrom(torusSDF(x, y, z), torusSDF(FAdd(x, F(1, -3)), y, z),
               torusSDF(x, FAdd(y, F(1, -3)), z), torusSDF(x, y, FAdd(z, F(1, -3))))

\* ---------------------------------------------------------- MagneticField
\* main constructs MagneticField(torusMajorR, torusMinorR, 8.0f).
B_toroidal == F(8, 0)
safetyFactor == F(3, 0)
B_poloidal == FDiv(FMul(B_toroidal, torusMinorR), FMul(torusMajorR, safetyFactor))

\* if (r < 1e-6f) r = 1e-6f
Floor6(r) == IF FLt(r, F(1, -6)) THEN F(1, -6) ELSE r

getToroidalFieldMagnitude(x, y, z) ==
    FDiv(FMul(B_toroidal, torusMajorR), Floor6(RadiusXZ(x, z)))

\* getToroidalFieldDir for R = sqrt(x*x + z*z).
ToroidalDirAt(x, z, R) ==
    IF FLt(R, F(1, -6)) THEN <<FZero, FZero, F(1, 0)>>
    ELSE <<FDiv(FNeg(z), R), FZero, FDiv(x, R)>>

getToroidalFieldDir(x, z) == ToroidalDirAt(x, z, RadiusXZ(x, z))

\* if (rFrac > 2.0f) rFrac = 2.0f
CapFrac(rFrac) == IF FGt(rFrac, F(2, 0)) THEN F(2, 0) ELSE rFrac

\* getPoloidalField3D: Bx = B_pol * pdx, ...
PoloidalScaled(pdx, pdy, pdz, B_pol) ==
    <<FMul(B_pol, pdx), FMul(B_pol, pdy), FMul(B_pol, pdz)>>

\* getPoloidalField3D: the cross product td x rn and the field strength.
PoloidalDir(td, rnx, rny, rnz, rLen) ==
    InOrder(<<rnx, rny, rnz,
              PoloidalScaled(FSub(FMul(td[2], rnz), FMul(td[3], rny)),
                             FSub(FMul(td[3], rnx), FMul(td[1], rnz)),
                             FSub(FMul(td[1], rny), FMul(td[2], rnx)),
                             FMul(B_poloidal, CapFrac(FDiv(rLen, torusMinorR))))>>)

\* getPoloidalField3D: the unit vector rn = r / rLen.
PoloidalUnit(rx, ry, rz, td, rLen) ==
    InOrder(<<rLen,
              PoloidalDir(td, FDiv(rx, rLen), FDiv(ry, rLen), FDiv(rz, rLen), rLen)>>)

\* getPoloidalField3D: rLen, floored at 1e-6.
PoloidalFrom(rx, ry, rz, td) ==
    InOrder(<<rx, rz, td, PoloidalUnit(rx, ry, rz, td, Floor6(Norm3(rx, ry, rz)))>>)

\* getPoloidalField3D: the offset r from the centreline point (cx, 0, cz).
PoloidalAt(x, y, z, Rxz) ==
    InOrder(<<Rxz,
              PoloidalFrom(FSub(x, FMul(torusMajorR, FDiv(x, Rxz))), y,
                           FSub(z, FMul(torusMajorR, FDiv(z, Rxz))),
                           getToroidalFieldDir(x, z))>>)

getPoloidalField3D(x, y, z) == PoloidalAt(x, y, z, Floor6(RadiusXZ(x, z)))

\* getTotalField: the poloidal field Bp plus Bt times the toroidal direction.
TotalFrom(Bp, Bt, td) ==
    InOrder(<<Bp, Bt, td,
              <<FAdd(Bp[1], FMul(Bt, td[1])), FAdd(Bp[2], FMul(Bt, td[2])),
                FAdd(Bp[3], FMul(Bt, td[3]))>>>>)

getTotalField(x, y, z) ==
    TotalFrom(getPoloidalField3D(x, y, z), getToroidalFieldMagnitude(x, y, z),
              getToroidalFieldDir(x, z))

calculateLorentzForce(vx, vy, vz, B, charge) ==
    <<FMul(charge, FSub(FMul(vy, B[3]), FMul(vz, B[2]))),
      FMul(charge, FSub(FMul(vz, B[1]), FMul(vx, B[3]))),
      FMul(charge, FSub(FMul(vx, B[2]), FMul(vy, B[1])))>>

\* sqrt(Bx*Bx + By*By + Bz*Bz) of a field vector.
NormOf(B) == Norm3(B[1], B[2], B[3])

\* |B| at a point.
FieldNorm(x, y, z) == NormOf(getTotalField(x, y, z))

\* calculateMirrorForce3D: (B2 - B1) / (2.0f * dx) with dx = 0.01f.
Gradient(B2, B1) ==
    InOrder(<<B1, B2, FDiv(FSub(B2, B1), FMul(F(2, 0), F(1, -2)))>>)

\* calculateMirrorForce3D: mu = mass * v_perp_sq / (2.0f * B0).
MagneticMoment(mass, vx, vy, vz, B0) ==
    FDiv(FMul(mass, FAdd(FAdd(FMul(vx, vx), FMul(vy, vy)), FMul(vz, vz))),
         FMul(F(2, 0), B0))

\* calculateMirrorForce3D: F = -mu * grad|B|.
MirrorFrom(dBdx, dBdy, dBdz, mu) ==
    InOrder(<<dBdx, dBdy, dBdz, mu,
              <<FMul(FNeg(mu), dBdx), FMul(FNeg(mu), dBdy), FMul(FNeg(mu), dBdz)>>>>)

calculateMirrorForce3D(x, y, z, vx, vy, vz, mass) ==
    MirrorFrom(Gradient(FieldNorm(FAdd(x, F(1, -2)), y, z),
                        FieldNorm(FSub(x, F(1, -2)), y, z)),
               Gradient(FieldNorm(x, FAdd(y, F(1, -2)), z),
                        FieldNorm(x, FSub(y, F(1, -2)), z)),
               Gradient(FieldNorm(x, y, FAdd(z, F(1, -2))),
                        FieldNorm(x, y, FSub(z, F(1, -2)))),
               MagneticMoment(mass, vx, vy, vz,
                              FAdd(FieldNorm(x, y, z), F(1, -10))))

\* ----------------------------------------------------------- PlasmaPhysics
\* The tunable parameters as the constructor sets them.
DefaultParams ==
    [timeScale |-> F(1, -2),
     plasmaTemperature |-> F(1, 9),
     particleDensity |-> F(1, 20),
     velocityScale |-> F(1, -7),
     fusionBoost |-> F(1, 6),
     maxFusionFractionPerStep |-> F(2, -2),
     confinementStrength |-> F(50, 0),
     coreAttractionStrength |-> F(8, 0),
     driftOmega |-> F(25, -1),
     wallLossProbability |-> FZero,
     enableCoulomb |-> FALSE]

\* applyMagneticForce3D: (F_lorentz + F_mirror) * forceScale per axis.
SumForces(Fl, Fmir) ==
    InOrder(<<Fl, Fmir,
              <<FMul(FAdd(Fl[1], Fmir[1]), F(1, -6)),
                FMul(FAdd(Fl[2], Fmir[2]), F(1, -6)),
                FMul(FAdd(Fl[3], Fmir[3]), F(1, -6))>>>>)

\* applyMagneticForce3D: the scaled force on p.
TotalForce(p) ==
    SumForces(calculateLorentzForce(p.vx, p.vy, p.vz,
                                    getTotalField(p.x, p.y, p.z), p.charge),
              calculateMirrorForce3D(p.x, p.y, p.z, p.vx, p.vy, p.vz, p.mass))

\* applyMagneticForce3D: p.v += (F / p.mass) * scaledDt.
LorentzKick(p, Fv, scaledDt) ==
    InOrder(<<Fv,
              [p EXCEPT !.vx = FAdd(p.vx, FMul(FDiv(Fv[1], p.mass), scaledDt)),
                        !.vy = FAdd(p.vy, FMul(FDiv(Fv[2], p.mass), scaledDt)),
                        !.vz = FAdd(p.vz, FMul(FDiv(Fv[3], p.mass), scaledDt))]>>)

\* applyMagneticForce3D: p.v += (-pull * d) * scaledDt.
PullWith(q, dx, dy, dz, pull, scaledDt) ==
    InOrder(<<pull,
              [q EXCEPT !.vx = FAdd(q.vx, FMul(FMul(FNeg(pull), dx), scaledDt)),
                        !.vy = FAdd(q.vy, FMul(FMul(FNeg(pull), dy), scaledDt)),
                        !.vz = FAdd(q.vz, FMul(FMul(FNeg(pull), dz), scaledDt))]>>)

\* applyMagneticForce3D: if (dist > 1e-8f), with
\* pull = coreAttractionStrength / (dist + 0.01f).
PullAt(P, q, dx, dy, dz, dist, scaledDt) ==
    IF FGt(dist, F(1, -8))
    THEN PullWith(q, dx, dy, dz,
                  FDiv(P.coreAttractionStrength, FAdd(dist, F(1, -2))), scaledDt)
    ELSE q

\* applyMagneticForce3D: the offset (dx, dy, dz) from the centreline point.
PullToward(P, q, dx, dy, dz, scaledDt) ==
    InOrder(<<q, dx, dy, dz, PullAt(P, q, dx, dy, dz, Norm3(dx, dy, dz), scaledDt)>>)

\* applyMagneticForce3D: the attraction towards the centreline point c.
CoreFrom(P, q, c, scaledDt) ==
    InOrder(<<c, PullToward(P, q, FSub(q.x, c[1]), FSub(q.y, c[2]), FSub(q.z, c[3]),
                            scaledDt)>>)

CoreAttraction(P, q, scaledDt) ==
    CoreFrom(P, q, projectToCenterline(q.x, q.y, q.z), scaledDt)

\* applyMagneticForce3D: the toroidal drift, for R = sqrt(x*x + z*z).
DriftAt(P, q, R, scaledDt) ==
    IF FGt(R, F(1, -6))
    THEN [q EXCEPT
            !.vx = FAdd(q.vx, FMul(FMul(P.driftOmega, FDiv(FNeg(q.z), R)), scaledDt)),
            !.vz = FAdd(q.vz, FMul(FMul(P.driftOmega, FDiv(q.x, R)), scaledDt))]
    ELSE q

Drift(P, q, scaledDt) ==
    InOrder(<<q, DriftAt(P, q, RadiusXZ(q.x, q.z), scaledDt)>>)

\* Variant of applyMagneticForce3D without the toroidal drift.
applyMagneticForceNoDrift(P, p, scaledDt) ==
    IF FLt(FAbs(p.charge), F(1, -30)) THEN p
    ELSE CoreAttraction(P, LorentzKick(p, TotalForce(p), scaledDt), scaledDt)

applyMagneticForce3D(P, p, scaledDt) ==
    IF FLt(FAbs(p.charge), F(1, -30)) THEN p
    ELSE Drift(P, CoreAttraction(P, LorentzKick(p, TotalForce(p), scaledDt), scaledDt),
               scaledDt)

\* The table of 10^(j/10), to four digits.
ExpTable == <<1000, 1259, 1585, 1995, 2512, 3162, 3981, 5012, 6310, 7943>>

\* The last index of the table.
Min9(j) == IF j > 9 THEN 9 ELSE j

\* 10^t for the integer part k of t.
Exp10Frac(t, k) ==
    F(ExpTable[Min9(FTrunc(FMul(FSub(t, FFromInt(k)), F(10, 0)))) + 1], k - 3)

\* 10^t for tr = trunc(t): floor(t) is tr - 1 when t is below tr.
Exp10At(t, tr) == Exp10Frac(t, IF FLt(t, FFromInt(tr)) THEN tr - 1 ELSE tr)

\* 10^t
Exp10(t) ==
    IF FGt(t, F(40, 0)) THEN FInf(1)
    ELSE IF FLt(t, F(-50, 0)) THEN FZero
    ELSE Exp10At(t, FTrunc(t))

\* std::exp, to the accuracy of a ten-entry table of 10^(j/10):
\* exp(a) = 10^(a * log10(e)).
FExp(a) ==
    IF IsNaN(a) THEN FNaN
    ELSE IF IsInf(a) THEN (IF a.m < 0 THEN FZero ELSE a)
    ELSE Exp10(FMul(a, F(4343, -4)))

\* applyCoulombForce: the velocity updates for the force (fx, fy, fz) on p1.
CoulombKick(p1, p2, fx, fy, fz, dt) ==
    InOrder(<<fx, fy, fz,
        <<[p1 EXCEPT !.vx = FAdd(p1.vx, FMul(FDiv(fx, p1.mass), dt)),
                     !.vy = FAdd(p1.vy, FMul(FDiv(fy, p1.mass), dt)),
                     !.vz = FAdd(p1.vz, FMul(FDiv(fz, p1.mass), dt))],
          [p2 EXCEPT !.vx = FAdd(p2.vx, FMul(FDiv(FNeg(fx), p2.mass), dt)),
                     !.vy = FAdd(p2.vy, FMul(FDiv(FNeg(fy), p2.mass), dt)),
                     !.vz = FAdd(p2.vz, FMul(FDiv(FNeg(fz), p2.mass), dt))]>>>>)

\* applyCoulombForce: f = (forceMagnitude * d / r) * screeningFactor * forceScale.
CoulombForce(p1, p2, dx, dy, dz, r, forceMagnitude, screeningFactor, dt) ==
    InOrder(<<forceMagnitude, screeningFactor,
        CoulombKick(p1, p2,
            FMul(FMul(FDiv(FMul(forceMagnitude, dx), r), screeningFactor), F(1, -6)),
            FMul(FMul(FDiv(FMul(forceMagnitude, dy), r), screeningFactor), F(1, -6)),
            FMul(FMul(FDiv(FMul(forceMagnitude, dz), r), screeningFactor), F(1, -6)),
            dt)>>)

\* applyCoulombForce: debyeLength = 743 * sqrt(plasmaTemperature / particleDensity).
debyeLength(P) ==
    FMul(F(743, 0), FSqrt(FDiv(P.plasmaTemperature, P.particleDensity)))

\* applyCoulombForce for the separation r, floored at 1e-6.
CoulombAt(P, p1, p2, dx, dy, dz, r, dt) ==
    InOrder(<<r,
        CoulombForce(p1, p2, dx, dy, dz, r,
            FDiv(FMul(FMul(COULOMB_CONSTANT, p1.charge), p2.charge), FMul(r, r)),
            FExp(FDiv(FNeg(r), debyeLength(P))), dt)>>)

\* applyCoulombForce for the offset (dx, dy, dz) from p1 to p2.
CoulombFrom(P, p1, p2, dx, dy, dz, dt) ==
    InOrder(<<dx, dy, dz,
              CoulombAt(P, p1, p2, dx, dy, dz, Floor6(Norm3(dx, dy, dz)), dt)>>)

\* applyCoulombForce(p1, p2, dt): the pair <<p1', p2'>>.
applyCoulombForce(P, p1, p2, dt) ==
    CoulombFrom(P, p1, p2, FSub(p2.x, p1.x), FSub(p2.y, p1.y), FSub(p2.z, p1.z), dt)

\* checkBoundaryCollision3D: p.v -= vdotn * n.
RemoveComponent(p, n, vdotn) ==
    IF FGt(vdotn, FZero)
    THEN [p EXCEPT !.vx = FSub(p.vx, FMul(vdotn, n[1])),
                   !.vy = FSub(p.vy, FMul(vdotn, n[2])),
                   !.vz = FSub(p.vz, FMul(vdotn, n[3]))]
    ELSE p

\* The velocity part common to both branches of checkBoundaryCollision3D:
\* remove the outward-normal component.
RemoveOutwardNormal(p, n) ==
    InOrder(<<p, RemoveComponent(p, n,
                     FAdd(FAdd(FMul(p.vx, n[1]), FMul(p.vy, n[2])), FMul(p.vz, n[3])))>>)

\* Variant of the wall-loss test that ignores the probability.
WallLostAlways(P, u) == TRUE

\* Whether the wall-loss branch deactivates, for the uniform draw u in [0, 1).
WallLost(P, u) ==
    FGt(P.wallLossProbability, FZero) /\ FLt(u, P.wallLossProbability)

\* checkBoundaryCollision3D: if (u01(rng) < wallLossProbability) p.active = false.
WallLoss(P, p, u) == IF WallLost(P, u) THEN [p EXCEPT !.active = FALSE] ELSE p

\* checkBoundaryCollision3D: p.v -= k * n * dt.
EdgePush(p, n, k, dt) ==
    InOrder(<<k, [p EXCEPT !.vx = FSub(p.vx, FMul(FMul(k, n[1]), dt)),
                           !.vy = FSub(p.vy, FMul(FMul(k, n[2]), dt)),
                           !.vz = FSub(p.vz, FMul(FMul(k, n[3]), dt))]>>)

\* checkBoundaryCollision3D: p.pos -= (sdf + edgeBuffer) * n * 1.05f.
PushBack(p, n, back) ==
    InOrder(<<p, [p EXCEPT !.x = FSub(p.x, FMul(FMul(back, n[1]), F(105, -2))),
                           !.y = FSub(p.y, FMul(FMul(back, n[2]), F(105, -2))),
                           !.z = FSub(p.z, FMul(FMul(back, n[3]), F(105, -2)))]>>)

\* checkBoundaryCollision3D, branch sdf > 0, for the normal n at p.
OutsideWall(P, p, dt, u, sdf, n) ==
    InOrder(<<n,
        WallLoss(P, RemoveOutwardNormal(
                        PushBack(EdgePush(p, n, FMul(P.confinementStrength, sdf), dt),
                                 n, FAdd(sdf, F(1, -2))), n), u)>>)

\* checkBoundaryCollision3D, branch sdf > -0.02, for the normal n at p.
EdgeLayer(P, p, dt, sdf, n) ==
    InOrder(<<n,
        RemoveOutwardNormal(
            EdgePush(p, n, FMul(P.confinementStrength, FAdd(sdf, F(2, -2))), dt), n)>>)

\* checkBoundaryCollision3D for sdf = torusSDF(p).
BoundaryAt(P, p, dt, u, sdf) ==
    IF FGt(sdf, FZero) THEN OutsideWall(P, p, dt, u, sdf, torusNormal(p.x, p.y, p.z))
    ELSE IF FGt(sdf, F(-2, -2)) THEN EdgeLayer(P, p, dt, sdf, torusNormal(p.x, p.y, p.z))
    ELSE p

\* checkBoundaryCollision3D(p, dt); u is the draw of u01(rng).
checkBoundaryCollision3D(P, p, dt, u) ==
    InOrder(<<p, BoundaryAt(P, p, dt, u, torusSDF(p.x, p.y, p.z))>>)

\* Lines 122-125 of updateParticles: some component is not finite.
NonFinite(p) ==
    ~IsFinite(p.x) \/ ~IsFinite(p.y) \/ ~IsFinite(p.z)
      \/ ~IsFinite(p.vx) \/ ~IsFinite(p.vy) \/ ~IsFinite(p.vz)

\* Variant of the reset that restores the position but not the velocity.
RecoverPositionOnly(p, phi) ==
    [p EXCEPT !.x = FMul(torusMajorR, FCos(phi)),
              !.y = FZero,
              !.z = FMul(torusMajorR, FSin(phi))]

\* Lines 128-131: the reset for the angle phi.
RecoverAt(p, phi) ==
    [p EXCEPT !.x = FMul(torusMajorR, FCos(phi)),
              !.y = FZero,
              !.z = FMul(torusMajorR, FSin(phi)),
              !.vx = FZero, !.vy = FZero, !.vz = FZero]

\* Lines 126-132: the reset onto the magnetic axis; r is rng() % 10000.
RecoverOnAxis(p, r) ==
    RecoverAt(p, FDiv(FMul(FMul(F(2, 0), M_PI), FFromInt(r)), F(1, 4)))

\* Lines 118-120: explicit Euler position update.
Integrate(p, scaledDt) ==
    InOrder(<<p, [p EXCEPT !.x = FAdd(p.x, FMul(p.vx, scaledDt)),
                           !.y = FAdd(p.y, FMul(p.vy, scaledDt)),
                           !.z = FAdd(p.z, FMul(p.vz, scaledDt))]>>)

\* getThermalVelocity
getThermalVelocity(P, mass) ==
    FSqrt(FDiv(FMul(FMul(F(3, 0), BOLTZMANN_CONSTANT), P.plasmaTemperature), mass))

\* Variant of the gates in which a forced call is gated like any other.
GatesIgnoreForce(force, E_cm, distance, u, fusionChance) ==
    /\ ~FLt(E_cm, FUSION_THRESHOLD_ENERGY)
    /\ ~FGt(distance, F(3, -2))
    /\ ~FGt(u, fusionChance)

\* Variant of the gates without the interaction-distance test of line 299.
GatesWithoutDistance(force, E_cm, distance, u, fusionChance) ==
    \/ force
    \/ /\ ~FLt(E_cm, FUSION_THRESHOLD_ENERGY)
       /\ ~FGt(u, fusionChance)

\* Lines 285-306 of attemptFusion: the three gates of a non-forced call (the
\* energy threshold, the interaction distance, the probability draw u).
PassesGates(force, E_cm, distance, u, fusionChance) ==
    \/ force
    \/ /\ ~FLt(E_cm, FUSION_THRESHOLD_ENERGY)
       /\ ~FGt(distance, F(3, -2))
       /\ ~FGt(u, fusionChance)

\* Lines 341-342: newParticles.push_back(helium); push_back(neutron).
PushProducts(newParticles, helium, neutron) == newParticles \o <<helium, neutron>>

\* Variant of lines 344-345 that leaves the reactant active.
DeactivatedKeepsActive(p) == p

\* Lines 344-345: p.active = false.
Deactivated(p) == [p EXCEPT !.active = FALSE]

\* Lines 277-280: vrel.
RelativeSpeed(p1, p2) ==
    Norm3(FSub(p1.vx, p2.vx), FSub(p1.vy, p2.vy), FSub(p1.vz, p2.vz))

\* Lines 282-283: E_cm = 0.5f * reducedMass * vrel * vrel.
CmEnergy(p1, p2, vrel) ==
    FMul(FMul(FMul(F(5, -1), FDiv(FMul(p1.mass, p2.mass), FAdd(p1.mass, p2.mass))),
              vrel), vrel)

\* Lines 289-292: distance.
Separation(p1, p2) ==
    Norm3(FSub(p2.x, p1.x), FSub(p2.y, p1.y), FSub(p2.z, p1.z))

\* Lines 302-303: the clamp of fusionChance to [0, 1].
Clamp01(c) ==
    IF FLt(c, FZero) THEN FZero ELSE IF FGt(c, F(1, 0)) THEN F(1, 0) ELSE c

\* Lines 294-303: fusionChance.
FusionChance(P, E_cm, vrel, dt) ==
    Clamp01(FMul(FMul(FMul(FMul(FMul(FUSION_CROSS_SECTION,
                                     FDiv(E_cm, FUSION_THRESHOLD_ENERGY)),
                                P.particleDensity), vrel), dt), P.fusionBoost))

\* Lines 308-313: (p1.mass * a1 + p2.mass * a2) / (p1.mass + p2.mass).
MassWeighted(p1, p2, a1, a2) ==
    FDiv(FAdd(FMul(p1.mass, a1), FMul(p2.mass, a2)), FAdd(p1.mass, p2.mass))

\* Lines 315-316, 324-325: the product speeds.
E_alpha == FMul(F(35, 5), ELEMENTARY_CHARGE)
E_neutron == FMul(F(141, 5), ELEMENTARY_CHARGE)
v_alpha == FSqrt(FDiv(FMul(F(2, 0), E_alpha), HELIUM_MASS))
v_neutron == FSqrt(FDiv(FMul(F(2, 0), E_neutron), NEUTRON_MASS))

\* Lines 327-329: the emission direction for sinTheta.
DirectionAt(d, sinTheta) ==
    InOrder(<<sinTheta,
              <<FMul(sinTheta, FCos(d.phi)), FMul(sinTheta, FSin(d.phi)), d.cosTheta>>>>)

\* Lines 322, 327-329: the emission direction of the draws d.
Direction(d) ==
    DirectionAt(d, FSqrt(FSub(F(1, 0), FMul(d.cosTheta, d.cosTheta))))

\* Lines 331-339: the two products, for the centre of mass cm = <<x, y, z>>,
\* its velocity cv and the direction dir.
Products(P, cm, cv, dir, id) ==
    InOrder(<<cm, cv, dir,
        <<createParticle("HELIUM", cm[1], cm[2],
              FMul(FAdd(cv[1], FMul(v_alpha, dir[1])), P.velocityScale),
              FMul(FAdd(cv[2], FMul(v_alpha, dir[2])), P.velocityScale),
              cm[3],
              FMul(FAdd(cv[3], FMul(v_alpha, dir[3])), P.velocityScale), id),
          createParticle("NEUTRON", cm[1], cm[2],
              FMul(FSub(cv[1], FMul(v_neutron, dir[1])), P.velocityScale),
              FMul(FSub(cv[2], FMul(v_neutron, dir[2])), P.velocityScale),
              cm[3],
              FMul(FSub(cv[3], FMul(v_neutron, dir[3])), P.velocityScale), id + 1)>>>>)

\* Lines 341-347: the effect of a reaction with the products hn = <<He, n>>.
Fused(p1, p2, newParticles, hn) ==
    InOrder(<<hn,
              [ret |-> TRUE, p1 |-> Deactivated(p1), p2 |-> Deactivated(p2),
               newParticles |-> PushProducts(newParticles, hn[1], hn[2])]>>)

\* Lines 308-347: the reaction.
Fuse(P, p1, p2, newParticles, d, id) ==
    Fused(p1, p2, newParticles,
          Products(P,
                   <<MassWeighted(p1, p2, p1.x, p2.x), MassWeighted(p1, p2, p1.y, p2.y),
                     MassWeighted(p1, p2, p1.z, p2.z)>>,
                   <<MassWeighted(p1, p2, p1.vx, p2.vx),
                     MassWeighted(p1, p2, p1.vy, p2.vy),
                     MassWeighted(p1, p2, p1.vz, p2.vz)>>,
                   Direction(d), id))

\* attemptFusion for E_cm.
FusionGated(P, p1, p2, newParticles, dt, force, d, id, vrel, E_cm) ==
    InOrder(<<E_cm,
        IF PassesGates(force, E_cm, Separation(p1, p2), d.u,
                       FusionChance(P, E_cm, vrel, dt))
        THEN Fuse(P, p1, p2, newParticles, d, id)
        ELSE [ret |-> FALSE, p1 |-> p1, p2 |-> p2, newParticles |-> newParticles]>>)

\* attemptFusion for vrel.
FusionWith(P, p1, p2, newParticles, dt, force, d, id, vrel) ==
    InOrder(<<vrel,
        FusionGated(P, p1, p2, newParticles, dt, force, d, id, vrel,
                    CmEnergy(p1, p2, vrel))>>)

\* attemptFusion(p1, p2, newParticles, dt, force).  d holds the draws the
\* call takes from rng: d.u (dist01), d.phi (angle_dist), d.cosTheta
\* (cos_dist).  The result is [ret, p1, p2, newParticles].
attemptFusion(P, p1, p2, newParticles, dt, force, d, id) ==
    FusionWith(P, p1, p2, newParticles, dt, force, d, id, RelativeSpeed(p1, p2))

\* Line 163: if (expectedFusions > (float)maxPairs) expectedFusions = (float)maxPairs.
ClampAbove(e0, maxPairs) ==
    IF FGt(e0, FFromInt(maxPairs)) THEN FFromInt(maxPairs) ELSE e0

\* Line 164: if (expectedFusions < 0.0f) expectedFusions = 0.0f.
ClampBelow(e1) == IF FLt(e1, FZero) THEN FZero ELSE e1

\* Variant of the clamps without the upper one of line 163.
ClampBelowOnly(e0, maxPairs) == ClampBelow(e0)

\* Lines 163-164: the two clamps of expectedFusions.
ClampExpected(e0, maxPairs) == ClampBelow(ClampAbove(e0, maxPairs))

\* Lines 147-150: the plasma volume.
PlasmaVolume ==
    FMul(FMul(FMul(FMul(FMul(F(2, 0), M_PI), M_PI), torusMajorR), torusMinorR),
         torusMinorR)
volume == IF FLt(PlasmaVolume, F(1, -8)) THEN F(1, -8) ELSE PlasmaVolume

\* Lines 155-157: T_keV for the unclamped value.
ClampTemperature(T_keV) == IF FLt(T_keV, F(1, -6)) THEN F(1, -6) ELSE T_keV

\* Lines 155-158: reactivity.
Reactivity(P) ==
    FMul(F(1, -6),
         FSqrt(ClampTemperature(FDiv(FMul(P.plasmaTemperature, BOLTZMANN_CONSTANT),
                                     FMul(F(1, 3), ELEMENTARY_CHARGE)))))

\* Lines 147-164 of updateParticles: expectedFusions after its two clamps.
ExpectedFusions(P, ND, NT, maxPairs, dt) ==
    ClampExpected(
        FMul(FMul(FMul(FMul(FMul(Reactivity(P), FDiv(FFromInt(ND), volume)),
                            FDiv(FFromInt(NT), volume)), volume), dt),
             P.fusionBoost),
        maxPairs)

\* Variant of the per-step cap that ignores maxFusionFractionPerStep.
MaxThisStepUncapped(mts0, maxPairs) == maxPairs

\* Lines 172-174: the per-step cap, for the value mts0 that
\* (int)((float)maxPairs * maxFusionFractionPerStep) produced.
MaxThisStep(mts0, maxPairs) ==
    IF mts0 < 0 THEN 0 ELSE IF mts0 > maxPairs THEN maxPairs ELSE mts0

\* Lines 171-175: the two caps of numFusions.
CapFusions(n1, maxPairs, maxThisStep) ==
    IF n1 > maxPairs
    THEN (IF maxPairs > maxThisStep THEN maxThisStep ELSE maxPairs)
    ELSE (IF n1 > maxThisStep THEN maxThisStep ELSE n1)

\* Lines 166-175: the number of reactions to sample, for the value n0 that
\* (int)expectedFusions produced, the draw u of u01(rng) and the cap.
NumFusions(expectedFusions, n0, u, maxPairs, maxThisStep) ==
    CapFusions(IF FLt(u, FSub(expectedFusions, FFromInt(n0))) THEN n0 + 1 ELSE n0,
               maxPairs, maxThisStep)

\* The seeding formula: the record at minor radius rFrac, major-radius
\* distance rho and velocity spread sigma.
SeedAt(type, rFrac, rho, sigma, d, id) ==
    InOrder(<<rFrac, rho, sigma,
              createParticle(type, FMul(rho, FCos(d.phi)), FMul(rFrac, FSin(d.theta)),
                             FMul(sigma, d.zx), FMul(sigma, d.zy),
                             FMul(rho, FSin(d.phi)), FMul(sigma, d.zz), id)>>)

\* The seeding formula: rho = R + rFrac * cos(theta).
SeedRing(P, type, rFrac, d, id) ==
    InOrder(<<rFrac,
              SeedAt(type, rFrac, FAdd(torusMajorR, FMul(rFrac, FCos(d.theta))),
                     FMul(getThermalVelocity(P, SpeciesMass(type)), P.velocityScale),
                     d, id)>>)

\* One particle of createThermalPlasma / injectFuel: the seeding formula of
\* lines 418-430 (fraction 0.85) and 464-472 (fraction 0.7).  d holds the
\* draws: d.phi, d.theta (angles), d.u (r_dist), d.zx, d.zy, d.zz (standard
\* normal deviates; normal_distribution(0, sigma) returns sigma * z).
SeedParticle(P, type, fraction, d, id) ==
    SeedRing(P, type, FMul(FMul(FSqrt(d.u), torusMinorR), fraction), d, id)

\* A loop count: a negative count runs no iteration.
LoopCount(n) == IF n > 0 THEN n ELSE 0

\* The records a seeding loop appends: numD Deuterium then numT Tritium,
\* draws[j] being the draws of the j-th record, ids from id0.
SeedBatch(P, numD, numT, fraction, draws, id0) ==
    [j \in 1..(LoopCount(numD) + LoopCount(numT)) |->
        SeedParticle(P, IF j <= LoopCount(numD) THEN "DEUTERIUM" ELSE "TRITIUM",
                     fraction, draws[j], id0 + j - 1)]

\* Variant of createThermalPlasma that seeds out to 1.2 minor radii.
createThermalPlasmaWide(P, numDeuterium, numTritium, draws, id0) ==
    SeedBatch(P, numDeuterium, numTritium, F(12, -1), draws, id0)

createThermalPlasma(P, numDeuterium, numTritium, draws, id0) ==
    SeedBatch(P, numDeuterium, numTritium, F(85, -2), draws, id0)

\* Variant of injectFuel that drops the inactive records before appending.
injectFuelReusing(P, ps, numD, numT, draws, id0) ==
    SelectSeq(ps, LAMBDA p : p.active) \o SeedBatch(P, numD, numT, F(7, -1), draws, id0)

injectFuel(P, ps, numD, numT, draws, id0) ==
    ps \o SeedBatch(P, numD, numT, F(7, -1), draws, id0)

\* ------------------------------------------------------------------ bounds
\* Particles main seeds per species (4200 in the code).
NumSeed == 2
\* updateParticles calls per run.
MaxSteps == 2
\* Setter calls per run.
MaxCalls == 3

\* ------------------------------------------------------------------- draws
\* uniform_real_distribution(0, 1) draws.
U01 == {FZero, F(5, -1), F(9999, -4)}
\* rng() % 10000 in the recovery branch.
RecoverDraws == {0, 2500}
\* Draws of one seeded particle.
SeedDraws ==
    {[phi |-> FZero, theta |-> FZero, u |-> FZero,
      zx |-> F(1, 0), zy |-> FZero, zz |-> FZero],
     [phi |-> FDiv(M_PI, F(2, 0)), theta |-> FZero, u |-> F(81, -2),
      zx |-> FZero, zy |-> F(-1, 0), zz |-> F(1, 0)]}
\* Draw sequences of the initial createThermalPlasma call.
InitDraws ==
    {[j \in 1..(2 * NumSeed) |->
        CHOOSE d \in SeedDraws : (d.u = FZero) <=> (j % 2 = b)] : b \in {0, 1}}
\* Draws of one fusion: dist01, angle_dist, cos_dist.
FusionDraws ==
    {[u |-> FZero, phi |-> FZero, cosTheta |-> FZero],
     [u |-> F(5, -1), phi |-> FDiv(M_PI, F(2, 0)), cosTheta |-> F(-1, 0)]}
\* Draws of uniform_int_distribution(0, n - 1): the two ends of the range.
PickDraws(n) == {0, n - 1}
\* dt values updateParticles is called with (main passes at most 0.033).
DtValues == {F(33, -3)}

\* Values the setters are called with.
TimeScaleValues == {F(1, 12)}
TemperatureValues == {FZero}
FusionBoostValues == {F(1, 9), FNaN}
MaxFractionValues == {F(2, 0), F(-5, -1)}
WallLossValues == {F(5, -1)}

\* ------------------------------------------------------------------- state
VARIABLES
    particles,      \* the particle store (std::vector<Particle>), 1-based
    prm,            \* PlasmaPhysics' tunable parameters
    pc,             \* position in updateParticles: idle, sweep, sample, react, merge
    dt,             \* updateParticles' argument
    i,              \* the integration loop's index (1-based)
    deuteriumIdx,   \* candidate index lists
    tritiumIdx,
    newParticles,   \* the pending buffer
    expectedFusions,
    numFusions,
    k,              \* the reaction loop's index
    nextId,         \* next serial number for a created record
    steps,          \* updateParticles calls so far
    calls,          \* setter calls so far
    stepStart,      \* the store as it was when the current step began
    reactions,      \* reactions carried out in the current step
    consumed,       \* ids of the reactants consumed in the current step
    skipped,        \* sampled pairs the current step skipped
    recovered,      \* indices reset by the non-finite recovery in this step
    sampledDone,    \* whether the current step ran the sampling block
    lastCall,       \* the last direct call of an engine function and its result
    phase,          \* main's position in its frame loop ("none": no loop runs)
    simulationRunning,
    fusionCount,
    activeFlashes,  \* std::vector<FusionFlash>
    stats,          \* the statistics locals of the frame: heliumCount, totalActive
    fuelCooldown,
    frames,         \* frames completed
    rendered,       \* the arguments of the last rayTracer.render call
    newFlashes,     \* flashes the current frame has created
    replay,         \* two engines constructed alike: each one's generator and store
    sim             \* the browser prototype's NeuroFusionReactor object

vars == <<particles, prm, pc, dt, i, deuteriumIdx, tritiumIdx, newParticles,
          expectedFusions, numFusions, k, nextId, steps, calls, stepStart,
          reactions, consumed, skipped, recovered, sampledDone, lastCall,
          phase, simulationRunning, fusionCount, activeFlashes, stats,
          fuelCooldown, frames, rendered, newFlashes, replay, sim>>

\* main's locals and the replayed engines.
mainVars == <<phase, simulationRunning, fusionCount, activeFlashes, stats,
              fuelCooldown, frames, rendered, newFlashes, replay, sim>>

stepLocals == <<dt, i, deuteriumIdx, tritiumIdx, newParticles, expectedFusions,
                numFusions, k>>
stepGhosts == <<stepStart, reactions, consumed, skipped, recovered, sampledDone>>

NoCall == [kind |-> "none"]
\* No browser session.
NoSim == [kind |-> "none"]

\* No frame loop runs: main's locals as lines 150-164 initialise them.
MainLocalsIdle ==
    /\ phase = "none"
    /\ simulationRunning = FALSE
    /\ fusionCount = 0
    /\ activeFlashes = <<>>
    /\ stats = [heliumCount |-> 0, totalActive |-> 0]
    /\ fuelCooldown = FZero
    /\ frames = 0
    /\ rendered = NoCall
    /\ newFlashes = 0

\* No main loop and no second execution.
MainIdle == MainLocalsIdle /\ replay = <<>> /\ sim = NoSim

\* main: the engine with its constructor's parameters and the store that
\* createThermalPlasma(numDeuterium, numTritium) returns.
Init ==
    /\ prm = DefaultParams
    /\ \E draws \in InitDraws :
           particles = createThermalPlasma(DefaultParams, NumSeed, NumSeed, draws, 1)
    /\ pc = "idle"
    /\ dt = FZero
    /\ i = 1
    /\ deuteriumIdx = <<>>
    /\ tritiumIdx = <<>>
    /\ newParticles = <<>>
    /\ expectedFusions = FZero
    /\ numFusions = 0
    /\ k = 0
    /\ nextId = 2 * NumSeed + 1
    /\ steps = 0
    /\ calls = 0
    /\ stepStart = <<>>
    /\ reactions = 0
    /\ consumed = <<>>
    /\ skipped = 0
    /\ recovered = {}
    /\ sampledDone = FALSE
    /\ lastCall = NoCall
    /\ MainIdle

\* ----------------------------------------------------------------- setters
SetParam(field, v) ==
    /\ pc = "idle"
    /\ phase \in {"none", "ui"}
    /\ calls < MaxCalls
    /\ prm[field] # v
    /\ prm' = [prm EXCEPT ![field] = v]
    /\ calls' = calls + 1
    /\ UNCHANGED <<particles, pc, nextId, steps, lastCall>>
    /\ UNCHANGED stepLocals
    /\ UNCHANGED stepGhosts
    /\ UNCHANGED mainVars

setTimeScale == \E v \in TimeScaleValues : SetParam("timeScale", v)
setPlasmaTemperature == \E v \in TemperatureValues : SetParam("plasmaTemperature", v)
setFusionBoost == \E v \in FusionBoostValues : SetParam("fusionBoost", v)
setMaxFusionFractionPerStep ==
    \E v \in MaxFractionValues : SetParam("maxFusionFractionPerStep", v)
setWallLossProbability ==
    \E v \in WallLossValues : SetParam("wallLossProbability", v)

\* --------------------------------------------------------- updateParticles
\* Lines 95-101: entry, in a run of at most n calls.
UpdateBeginWithin(n) ==
    /\ pc = "idle"
    /\ phase \in {"none", "call"}
    /\ steps < n
    /\ \E d \in (IF phase = "call" THEN {dt} ELSE DtValues) : dt' = d
    /\ pc' = IF Len(particles) = 0 THEN "sample" ELSE "sweep"
    /\ i' = 1
    /\ deuteriumIdx' = <<>>
    /\ tritiumIdx' = <<>>
    /\ newParticles' = <<>>
    /\ expectedFusions' = FZero
    /\ numFusions' = 0
    /\ k' = 0
    /\ steps' = steps + 1
    /\ stepStart' = particles
    /\ reactions' = 0
    /\ consumed' = <<>>
    /\ skipped' = 0
    /\ recovered' = {}
    /\ sampledDone' = FALSE
    /\ phase' = IF phase = "call" THEN "detect" ELSE phase
    /\ UNCHANGED <<particles, prm, nextId, calls, lastCall, simulationRunning,
                   fusionCount, activeFlashes, stats, fuelCooldown, frames,
                   rendered, newFlashes, replay, sim>>

UpdateBegin == UpdateBeginWithin(MaxSteps)

\* Line 95: float scaledDt = dt * timeScale.
scaledDt == FMul(dt, prm.timeScale)

\* Line 114: the pair pr = <<p1', p2'>> written back to particles[i], particles[j].
CoulombStore(ps, ii, j, pr) == [ps EXCEPT ![ii] = pr[1], ![j] = pr[2]]

\* Lines 111-116: the inner loop over j > i.
RECURSIVE CoulombLoop(_, _, _, _, _)
CoulombLoop(P, ps, ii, j, sdt) ==
    IF j > Len(ps) THEN ps
    ELSE IF ~ps[j].active THEN CoulombLoop(P, ps, ii, j + 1, sdt)
    ELSE CoulombLoop(P, CoulombStore(ps, ii, j,
                                     applyCoulombForce(P, ps[ii], ps[j], sdt)),
                     ii, j + 1, sdt)

\* Line 109: applyMagneticForce3D(particles[i], scaledDt, dt).
Forced(P, ps, ii, sdt) == [ps EXCEPT ![ii] = applyMagneticForce3D(P, ps[ii], sdt)]

\* Variant of the electrostatic term whose inner loop starts at the first record.
RepelledFromFirst(P, ps, ii, sdt) ==
    IF P.enableCoulomb THEN CoulombLoop(P, ps, ii, 1, sdt) ELSE ps

\* Lines 111-116: if (enableCoulomb) ...
Repelled(P, ps, ii, sdt) ==
    IF P.enableCoulomb THEN CoulombLoop(P, ps, ii, ii + 1, sdt) ELSE ps

\* Lines 118-120 on particles[i].
Moved(ps, ii, sdt) == [ps EXCEPT ![ii] = Integrate(ps[ii], sdt)]

\* Lines 109-120: the store after the forces and the position update of
\* particle ii.
Advance(P, ps, ii, sdt) == Moved(Repelled(P, Forced(P, ps, ii, sdt), ii, sdt), ii, sdt)

\* Variant of the listing that does not tell the two fuel species apart.
ListedAsFuel(p0, type) == p0.type \in {"DEUTERIUM", "TRITIUM"}

\* Variant of the listing that also puts Helium on the Deuterium list.
ListedWithHelium(p0, type) ==
    IF type = "DEUTERIUM" THEN p0.type \in {"DEUTERIUM", "HELIUM"} ELSE p0.type = type

\* Lines 106-107: whether the record, active when its iteration starts, is
\* pushed on the list of `type`.
ListedAs(p0, type) == p0.type = type

\* Lines 354, 375: whether checkBoundaryCollision3D draws from rng for p.
DrawsWallLoss(P, p) ==
    FGt(torusSDF(p.x, p.y, p.z), FZero) /\ FGt(P.wallLossProbability, FZero)

\* Lines 122-133: the record after the recovery branch, r being rng() % 10000.
Recovered(p, r) == IF NonFinite(p) THEN RecoverOnAxis(p, r) ELSE p

\* Lines 103-141: one iteration of the integration loop.
SweepParticle ==
    /\ pc = "sweep"
    /\ i <= Len(particles)
    /\ IF ~particles[i].active
       THEN UNCHANGED <<particles, deuteriumIdx, tritiumIdx, recovered>>
       ELSE \E moved \in {Advance(prm, particles, i, scaledDt)} :
            \E r \in (IF NonFinite(moved[i]) THEN RecoverDraws ELSE {0}) :
            \E placed \in {Recovered(moved[i], r)} :
            \E u \in (IF DrawsWallLoss(prm, placed) THEN U01 ELSE {FZero}) :
              /\ particles' = [moved EXCEPT
                                 ![i] = checkBoundaryCollision3D(prm, placed, scaledDt, u)]
              /\ deuteriumIdx' = IF ListedAs(particles[i], "DEUTERIUM")
                                 THEN Append(deuteriumIdx, i)
                                 ELSE deuteriumIdx
              /\ tritiumIdx' = IF ~ListedAs(particles[i], "DEUTERIUM")
                                    /\ ListedAs(particles[i], "TRITIUM")
                               THEN Append(tritiumIdx, i)
                               ELSE tritiumIdx
              /\ recovered' = IF NonFinite(moved[i]) THEN recovered \cup {i}
                              ELSE recovered
    /\ i' = i + 1
    /\ pc' = IF i + 1 > Len(particles) THEN "sample" ELSE "sweep"
    /\ UNCHANGED <<prm, dt, newParticles, expectedFusions, numFusions, k, nextId,
                   steps, calls, stepStart, reactions, consumed, skipped,
                   sampledDone, lastCall>>
    /\ UNCHANGED mainVars

Min(a, b) == IF a < b THEN a ELSE b

\* Line 145: const int maxPairs = (ND < NT) ? ND : NT.
maxPairs == Min(Len(deuteriumIdx), Len(tritiumIdx))

\* Lines 143-175: the population counts and the number of reactions.
SampleFusions ==
    /\ pc = "sample"
    /\ IF maxPairs > 0
       THEN \E e \in {ExpectedFusions(prm, Len(deuteriumIdx), Len(tritiumIdx),
                                      maxPairs, dt)} :
            \E n0 \in FToIntOutcomes(e), u \in U01,
               m0 \in FToIntOutcomes(FMul(FFromInt(maxPairs),
                                          prm.maxFusionFractionPerStep)) :
              /\ expectedFusions' = e
              /\ sampledDone' = TRUE
              /\ numFusions' = NumFusions(e, n0, u, maxPairs, MaxThisStep(m0, maxPairs))
              /\ pc' = IF numFusions' > 0 THEN "react" ELSE "merge"
       ELSE /\ pc' = "merge"
            /\ UNCHANGED <<expectedFusions, numFusions, sampledDone>>
    /\ UNCHANGED <<particles, prm, dt, i, deuteriumIdx, tritiumIdx, newParticles, k,
                   nextId, steps, calls, stepStart, reactions, consumed, skipped,
                   recovered, lastCall>>
    /\ UNCHANGED mainVars

\* Variant of the reaction loop without the re-check of line 184.
CandidateUnchecked(ps, id, it) == TRUE

\* Variant of the candidate test that rejects every pair.
CandidateNever(ps, id, it) == FALSE

\* Line 184: both sampled reactants are still active.
CandidateOk(ps, id, it) == ps[id].active /\ ps[it].active

\* Lines 181-186: one iteration of the reaction loop, for the picks
\* id = deuteriumIdx[d_pick(rng)] and it = tritiumIdx[t_pick(rng)].
ReactPair(id, it) ==
    IF ~CandidateOk(particles, id, it)
    THEN /\ skipped' = skipped + 1
         /\ UNCHANGED <<particles, newParticles, nextId, reactions, consumed>>
    ELSE \E d \in FusionDraws :
         \E res \in {attemptFusion(prm, particles[id], particles[it], newParticles,
                                   scaledDt, TRUE, d, nextId)} :
           /\ particles' = [particles EXCEPT ![id] = res.p1, ![it] = res.p2]
           /\ newParticles' = res.newParticles
           /\ nextId' = nextId + (Len(res.newParticles) - Len(newParticles))
           /\ reactions' = reactions + (IF res.ret THEN 1 ELSE 0)
           /\ consumed' = IF res.ret
                          THEN consumed \o <<particles[id].id, particles[it].id>>
                          ELSE consumed
           /\ UNCHANGED skipped

React ==
    /\ pc = "react"
    /\ k < numFusions
    /\ \E dp \in PickDraws(Len(deuteriumIdx)), tp \in PickDraws(Len(tritiumIdx)) :
         ReactPair(deuteriumIdx[dp + 1], tritiumIdx[tp + 1])
    /\ k' = k + 1
    /\ pc' = IF k + 1 < numFusions THEN "react" ELSE "merge"
    /\ UNCHANGED <<prm, dt, i, deuteriumIdx, tritiumIdx, expectedFusions, numFusions,
                   steps, calls, stepStart, recovered, sampledDone, lastCall>>
    /\ UNCHANGED mainVars

\* Variant of the merge that inserts the buffer in front of the store.
MergeStoreInFront(ps, newPs) == newPs \o ps

\* Line 190: particles.insert(particles.end(), newParticles...).
MergeStore(ps, newPs) == ps \o newPs

Merge ==
    /\ pc = "merge"
    /\ particles' = MergeStore(particles, newParticles)
    /\ pc' = "idle"
    /\ UNCHANGED <<prm, nextId, steps, calls, lastCall>>
    /\ UNCHANGED stepLocals
    /\ UNCHANGED stepGhosts
    /\ UNCHANGED mainVars

Next ==
    \/ setTimeScale
    \/ setPlasmaTemperature
    \/ setFusionBoost
    \/ setMaxFusionFractionPerStep
    \/ setWallLossProbability
    \/ UpdateBegin
    \/ SweepParticle
    \/ SampleFusions
    \/ React
    \/ Merge

Spec == Init /\ [][Next]_vars

\* ------------------------------------------------- direct attemptFusion calls
\* x-offset of the Tritium from the Deuterium of the pair.
PairOffsets == {F(1, -2), F(5, -2), F(1, 30)}
\* Speed of each reactant along x, towards the other.
PairSpeeds == {F(3, -1), F(3, 38)}
\* What the buffer holds before the call.
PairBuffers == {<<>>, <<createParticle("ELECTRON", FZero, FZero, FZero, FZero, FZero, FZero, 3)>>}
\* dt values of a direct call.
PairDtValues == {F(33, -5), F(1, 0)}

\* A Deuterium and a Tritium, and an engine as constructed or with a boost set.
InitFusion ==
    /\ \E off \in PairOffsets, v \in PairSpeeds :
         particles = <<createParticle("DEUTERIUM", torusMajorR, FZero, v, FZero,
                                      FZero, FZero, 1),
                       createParticle("TRITIUM", FAdd(torusMajorR, off), FZero,
                                      FNeg(v), FZero, FZero, FZero, 2)>>
    /\ \E b \in FusionBoostValues \cup {DefaultParams.fusionBoost} :
         prm = [DefaultParams EXCEPT !.fusionBoost = b]
    /\ newParticles \in PairBuffers
    /\ pc = "idle"
    /\ dt = FZero
    /\ i = 1
    /\ deuteriumIdx = <<>>
    /\ tritiumIdx = <<>>
    /\ expectedFusions = FZero
    /\ numFusions = 0
    /\ k = 0
    /\ nextId = 4
    /\ steps = 0
    /\ calls = 0
    /\ stepStart = <<>>
    /\ reactions = 0
    /\ consumed = <<>>
    /\ skipped = 0
    /\ recovered = {}
    /\ sampledDone = FALSE
    /\ lastCall = NoCall
    /\ MainIdle

\* attemptFusion(particles[0], particles[1], newParticles, dt, force)
AttemptFusionCall ==
    /\ calls < MaxCalls
    /\ \E force \in BOOLEAN, d \in FusionDraws, cdt \in PairDtValues :
       \E res \in {attemptFusion(prm, particles[1], particles[2], newParticles,
                                 cdt, force, d, nextId)} :
         /\ particles' = [particles EXCEPT ![1] = res.p1, ![2] = res.p2]
         /\ newParticles' = res.newParticles
         /\ nextId' = nextId + (Len(res.newParticles) - Len(newParticles))
         /\ lastCall' = [kind |-> "attemptFusion", force |-> force,
                         ret |-> res.ret, p1 |-> particles[1],
                         p2 |-> particles[2], buffer |-> newParticles]
    /\ calls' = calls + 1
    /\ UNCHANGED <<prm, pc, dt, i, deuteriumIdx, tritiumIdx, expectedFusions,
                   numFusions, k, steps>>
    /\ UNCHANGED stepGhosts
    /\ UNCHANGED mainVars

NextFusion == AttemptFusionCall

SpecFusion == InitFusion /\ [][NextFusion]_vars

\* ------------------------------------------------------- main's frame loop
\* Scaled stand-ins for main's thresholds: the store size above which the
\* frame compacts (15000 at line 361), the auto-fuel threshold (5000) and
\* the batch size (1000), and the frames per run.
CompactionLimit == 6
fuelThreshold == 2
fuelBatchSize == 1
MaxFrames == 2

\* Lines 154, 158, 160, 164.
injectionKick == F(25, -2)
flashDuration == F(25, -1)
autoFuel == TRUE
fuelCooldownTime == F(6, -1)
\* GPURayTracer::MAX_FLASHES
MAX_FLASHES == 64

\* angleDist2(uiRng) draws of Start Injection, one per record of the store.
KickDraws(n) ==
    {[j \in 1..n |-> IF j % 2 = 1 THEN FDiv(M_PI, F(2, 0)) ELSE FZero]}
\* Draws of one injectFuel call of main: 2 * fuelBatchSize records.
FuelDraws ==
    {[j \in 1..(2 * fuelBatchSize) |->
        CHOOSE d \in SeedDraws : (d.u = FZero) <=> (j <= fuelBatchSize)]}
\* Draws of the createThermalPlasma call of line 142.
FrameInitDraws == {draws \in InitDraws : draws[1].u = FZero}
\* The engine's parameters when the loop starts: as constructed, or with
\* the fraction raised, or with the fraction raised and a wall loss set.
FrameParams ==
    {DefaultParams,
     [DefaultParams EXCEPT !.maxFusionFractionPerStep = F(2, 0)],
     [DefaultParams EXCEPT !.maxFusionFractionPerStep = F(2, 0),
                           !.wallLossProbability = F(5, -1)]}

\* Lines 222-227: the kick for R = sqrt(p.x * p.x + p.z * p.z) and the draw b.
KickAt(p, b, R) ==
    IF FGt(R, F(1, -6))
    THEN [p EXCEPT !.vx = FAdd(p.vx, FMul(injectionKick, FDiv(FNeg(p.z), R))),
                   !.vz = FAdd(p.vz, FMul(injectionKick, FDiv(p.x, R))),
                   !.vy = FAdd(p.vy, FMul(FMul(injectionKick, F(3, -1)), FSin(b)))]
    ELSE [p EXCEPT !.vy = FAdd(p.vy, FMul(FMul(injectionKick, F(3, -1)), FSin(b)))]

\* Lines 213-228: one iteration of the Start Injection loop.
KickParticle(p, b) ==
    IF ~p.active \/ (p.type # "DEUTERIUM" /\ p.type # "TRITIUM") THEN p
    ELSE InOrder(<<p, KickAt(p, b, RadiusXZ(p.x, p.z))>>)

\* Lines 268-282, 304-308, 343-351: the active records of `type`.
CountActive(ps, type) ==
    Cardinality({j \in 1..Len(ps) : ps[j].active /\ ps[j].type = type})

\* Lines 269-273: totalActive.
CountTotalActive(ps) == Cardinality({j \in 1..Len(ps) : ps[j].active})

\* Lines 320-329: the flash at a Helium record.
FlashAt(p) == [px |-> p.x, py |-> p.y, pz |-> p.z, age |-> FZero]

\* Lines 316-332: the flashes the loop creates, walking the store from index
\* j down while n = newFusions is positive.
RECURSIVE FlashesFrom(_, _, _)
FlashesFrom(ps, j, n) ==
    IF j < 1 \/ n <= 0 THEN <<>>
    ELSE IF ps[j].active /\ ps[j].type = "HELIUM"
         THEN <<FlashAt(ps[j])>> \o FlashesFrom(ps, j - 1, n - 1)
         ELSE FlashesFrom(ps, j - 1, n)

\* Variant of the compaction that also erases the neutrons.
CompactedChargedOnly(ps) == SelectSeq(ps, LAMBDA p : p.active /\ p.type # "NEUTRON")

\* Lines 363-367: erase(remove_if(!active)).
Compacted(ps) == SelectSeq(ps, LAMBDA p : p.active)

\* Variant of the ageing that erases a flash only once its age exceeds 1.5.
AgedFlashesLate(fs, deltaTime) ==
    SelectSeq([j \in 1..Len(fs) |->
                 [fs[j] EXCEPT !.age = FAdd(fs[j].age, FDiv(deltaTime, flashDuration))]],
              LAMBDA f : ~FGe(f.age, F(15, -1)))

\* Lines 371-379: every flash aged by deltaTime / flashDuration, the expired
\* ones erased.
AgedFlashes(fs, deltaTime) ==
    SelectSeq([j \in 1..Len(fs) |->
                 [fs[j] EXCEPT !.age = FAdd(fs[j].age, FDiv(deltaTime, flashDuration))]],
              LAMBDA f : ~FGe(f.age, F(1, 0)))

\* Lines 383-387: gpuFlashes.
CappedFlashes(fs) == IF Len(fs) > MAX_FLASHES THEN SubSeq(fs, 1, MAX_FLASHES) ELSE fs

\* main before the first frame (lines 134-164): the engine, the seeded
\* store, the simulation paused.
InitFrame ==
    /\ prm \in FrameParams
    /\ \E draws \in FrameInitDraws :
           particles = createThermalPlasma(DefaultParams, NumSeed, NumSeed, draws, 1)
    /\ pc = "idle"
    /\ dt \in DtValues
    /\ i = 1
    /\ deuteriumIdx = <<>>
    /\ tritiumIdx = <<>>
    /\ newParticles = <<>>
    /\ expectedFusions = FZero
    /\ numFusions = 0
    /\ k = 0
    /\ nextId = 2 * NumSeed + 1
    /\ steps = 0
    /\ calls = 0
    /\ stepStart = <<>>
    /\ reactions = 0
    /\ consumed = <<>>
    /\ skipped = 0
    /\ recovered = {}
    /\ sampledDone = FALSE
    /\ lastCall = NoCall
    /\ phase = "ui"
    /\ simulationRunning = FALSE
    /\ fusionCount = 0
    /\ activeFlashes = <<>>
    /\ stats = [heliumCount |-> 0, totalActive |-> 0]
    /\ fuelCooldown = FZero
    /\ frames = 0
    /\ rendered = NoCall
    /\ newFlashes = 0
    /\ replay = <<>>
    /\ sim = NoSim

\* What a frame action outside updateParticles leaves alone in the engine.
engineIdle == <<pc, dt, i, deuteriumIdx, tritiumIdx, newParticles, expectedFusions,
                numFusions, k, steps, stepStart, reactions, consumed, skipped,
                recovered, sampledDone, lastCall>>

\* Lines 209-230: the Start Injection button.  (The Manual Refuel button of
\* lines 262-266 is the direct injectFuel call of the seeding calls below.)
StartInjection ==
    /\ phase = "ui"
    /\ frames < MaxFrames
    /\ ~simulationRunning
    /\ \E bs \in KickDraws(Len(particles)) :
         particles' = [j \in 1..Len(particles) |-> KickParticle(particles[j], bs[j])]
    /\ simulationRunning' = TRUE
    /\ UNCHANGED <<prm, nextId, calls, phase, fusionCount, activeFlashes, stats,
                   fuelCooldown, frames, rendered, newFlashes, replay, sim>>
    /\ UNCHANGED engineIdle

\* Variant of the frame that steps the engine whether or not the
\* simulation runs.
CountStatisticsUnpaused ==
    /\ phase = "ui"
    /\ frames < MaxFrames
    /\ stats' = [heliumCount |-> CountActive(particles, "HELIUM"),
                 totalActive |-> CountTotalActive(particles)]
    /\ phase' = "call"
    /\ newFlashes' = 0
    /\ UNCHANGED <<particles, prm, nextId, calls, simulationRunning, fusionCount,
                   activeFlashes, fuelCooldown, frames, rendered, replay, sim>>
    /\ UNCHANGED engineIdle

\* Lines 268-297: the statistics of the frame and the branch on
\* simulationRunning, in a run of at most n frames.
CountStatisticsWithin(n) ==
    /\ phase = "ui"
    /\ frames < n
    /\ stats' = [heliumCount |-> CountActive(particles, "HELIUM"),
                 totalActive |-> CountTotalActive(particles)]
    /\ phase' = IF simulationRunning THEN "call" ELSE "age"
    /\ newFlashes' = 0
    /\ UNCHANGED <<particles, prm, nextId, calls, simulationRunning, fusionCount,
                   activeFlashes, fuelCooldown, frames, rendered, replay, sim>>
    /\ UNCHANGED engineIdle

CountStatistics == CountStatisticsWithin(MaxFrames)

\* Lines 303-337, for newFusions = postFusionHe - preFusionHe.
DetectWith(newFusions) ==
    IF newFusions > 0
    THEN \E fl \in {FlashesFrom(particles, Len(particles), newFusions)} :
           /\ fusionCount' = fusionCount + newFusions
           /\ activeFlashes' = activeFlashes \o fl
           /\ newFlashes' = Len(fl)
    ELSE UNCHANGED <<fusionCount, activeFlashes, newFlashes>>

\* Lines 303-337: the frame counts the Helium again after the step.
DetectFusions ==
    /\ phase = "detect"
    /\ pc = "idle"
    /\ DetectWith(CountActive(particles, "HELIUM") - stats.heliumCount)
    /\ phase' = "fuel"
    /\ UNCHANGED <<particles, prm, nextId, calls, simulationRunning, stats,
                   fuelCooldown, frames, rendered, replay, sim>>
    /\ UNCHANGED engineIdle

\* Variant of the auto-fuel that injects Deuterium only.
AutoFuelDeuteriumOnly(cd) ==
    IF (CountActive(particles, "DEUTERIUM") < fuelThreshold
          \/ CountActive(particles, "TRITIUM") < fuelThreshold)
       /\ FLe(cd, FZero)
    THEN /\ \E draws \in FuelDraws :
              particles' = injectFuel(prm, particles, fuelBatchSize, 0, draws, nextId)
         /\ nextId' = nextId + fuelBatchSize
         /\ fuelCooldown' = fuelCooldownTime
         /\ lastCall' = [kind |-> "autoFuel", elapsed |-> FZero]
    ELSE /\ fuelCooldown' = cd
         /\ UNCHANGED <<particles, nextId, lastCall>>

\* Lines 352-358, for the cooldown cd that line 341 has decremented.  The
\* call is recorded with the deltaTime accumulated since it.
AutoFuelWith(cd) ==
    IF (CountActive(particles, "DEUTERIUM") < fuelThreshold
          \/ CountActive(particles, "TRITIUM") < fuelThreshold)
       /\ FLe(cd, FZero)
    THEN /\ \E draws \in FuelDraws :
              particles' = injectFuel(prm, particles, fuelBatchSize, fuelBatchSize,
                                      draws, nextId)
         /\ nextId' = nextId + 2 * fuelBatchSize
         /\ fuelCooldown' = fuelCooldownTime
         /\ lastCall' = [kind |-> "autoFuel", elapsed |-> FZero]
    ELSE /\ fuelCooldown' = cd
         /\ UNCHANGED <<particles, nextId, lastCall>>

\* Variant of the auto-fuel that never waits for the cooldown.
AutoFuelAtOnce ==
    /\ phase = "fuel"
    /\ IF autoFuel THEN AutoFuelWith(FSub(FZero, dt))
       ELSE UNCHANGED <<particles, nextId, fuelCooldown, lastCall>>
    /\ phase' = "compact"
    /\ UNCHANGED <<prm, calls, simulationRunning, fusionCount, activeFlashes, stats,
                   frames, rendered, newFlashes, replay, sim>>
    /\ UNCHANGED <<pc, dt, i, deuteriumIdx, tritiumIdx, newParticles, expectedFusions,
                   numFusions, k, steps, stepStart, reactions, consumed, skipped,
                   recovered, sampledDone>>

\* Lines 339-359.
AutoFuel ==
    /\ phase = "fuel"
    /\ IF autoFuel THEN AutoFuelWith(FSub(fuelCooldown, dt))
       ELSE UNCHANGED <<particles, nextId, fuelCooldown, lastCall>>
    /\ phase' = "compact"
    /\ UNCHANGED <<prm, calls, simulationRunning, fusionCount, activeFlashes, stats,
                   frames, rendered, newFlashes, replay, sim>>
    /\ UNCHANGED <<pc, dt, i, deuteriumIdx, tritiumIdx, newParticles, expectedFusions,
                   numFusions, k, steps, stepStart, reactions, consumed, skipped,
                   recovered, sampledDone>>

\* Lines 361-368.
Compact ==
    /\ phase = "compact"
    /\ particles' = IF Len(particles) > CompactionLimit THEN Compacted(particles)
                    ELSE particles
    /\ phase' = "age"
    /\ UNCHANGED <<prm, nextId, calls, simulationRunning, fusionCount, activeFlashes,
                   stats, fuelCooldown, frames, rendered, newFlashes, replay, sim>>
    /\ UNCHANGED engineIdle

\* Lines 371-405 and 166-171 of the next iteration: the flashes age, the
\* frame is rendered and the next frame's deltaTime is measured.
AgeAndRender ==
    /\ phase = "age"
    /\ \E fl \in {AgedFlashes(activeFlashes, dt)} :
         /\ activeFlashes' = fl
         /\ rendered' = [kind |-> "render", gpuParticles |-> <<>>,
                         gpuFlashes |-> CappedFlashes(fl),
                         numParticles |-> stats.totalActive]
    /\ frames' = frames + 1
    /\ phase' = "ui"
    /\ dt' \in DtValues
    /\ lastCall' = IF lastCall.kind = "autoFuel"
                   THEN [lastCall EXCEPT !.elapsed = FAdd(@, dt')]
                   ELSE lastCall
    /\ UNCHANGED <<particles, prm, nextId, calls, simulationRunning, fusionCount,
                   stats, fuelCooldown, newFlashes, replay, sim>>
    /\ UNCHANGED <<pc, i, deuteriumIdx, tritiumIdx, newParticles, expectedFusions,
                   numFusions, k, steps, stepStart, reactions, consumed, skipped,
                   recovered, sampledDone>>

NextFrame ==
    \/ StartInjection
    \/ setTimeScale
    \/ CountStatistics
    \/ UpdateBegin
    \/ SweepParticle
    \/ SampleFusions
    \/ React
    \/ Merge
    \/ DetectFusions
    \/ AutoFuel
    \/ Compact
    \/ AgeAndRender

SpecFrame == InitFrame /\ [][NextFrame]_vars

\* ----------------------------------------------------------- seeding calls
\* createThermalPlasma / injectFuel calls per run.
MaxSeedCalls == 2
\* The counts a seeding call is given.
SeedCounts == -1..2
\* Draws of a seeded record: those of SeedDraws and one at the largest
\* radius, r_dist(rng) just below 1.
EdgeSeedDraws ==
    SeedDraws \cup {[phi |-> M_PI, theta |-> FDiv(M_PI, F(2, 0)), u |-> F(9999, -4),
                     zx |-> F(-1, 0), zy |-> F(1, 0), zz |-> FZero]}
\* States of the generator; std::random_device seeds it with any of them
\* (line 52).
RandomDevice == 0..2
\* The draws of the record seeded from generator state s.
DrawAt(s) ==
    CHOOSE d \in EdgeSeedDraws :
        \/ s % 3 = 0 /\ d.u = FZero
        \/ s % 3 = 1 /\ d.u = F(81, -2)
        \/ s % 3 = 2 /\ d.u = F(9999, -4)
\* The draws of n records seeded in a row from generator state s.
RngDraws(s, n) == [j \in 1..n |-> DrawAt(s + j)]
\* Draw sequences of a seeding call that creates n records.
SeedDrawSeqs(n) == {RngDraws(s, n) : s \in RandomDevice}
\* The stores a seeding call finds: none yet, or one with an inactive record.
SeedStores ==
    {<<>>,
     <<[createParticle("DEUTERIUM", torusMajorR, FZero, FZero, FZero, FZero, FZero, 1)
          EXCEPT !.active = FALSE],
       createParticle("TRITIUM", torusMajorR, F(1, -1), FZero, FZero, FZero, FZero, 2)>>}

\* The engine as constructed and a store.
SeedEngine ==
    /\ prm = DefaultParams
    /\ particles \in SeedStores
    /\ pc = "idle"
    /\ dt = FZero
    /\ i = 1
    /\ deuteriumIdx = <<>>
    /\ tritiumIdx = <<>>
    /\ newParticles = <<>>
    /\ expectedFusions = FZero
    /\ numFusions = 0
    /\ k = 0
    /\ nextId = 3
    /\ steps = 0
    /\ calls = 0
    /\ stepStart = <<>>
    /\ reactions = 0
    /\ consumed = <<>>
    /\ skipped = 0
    /\ recovered = {}
    /\ sampledDone = FALSE
    /\ lastCall = NoCall

InitSeed == SeedEngine /\ MainIdle

\* particles = createThermalPlasma(numDeuterium, numTritium)
CreateThermalPlasmaCall ==
    /\ calls < MaxSeedCalls
    /\ \E numD \in SeedCounts, numT \in SeedCounts :
       \E draws \in SeedDrawSeqs(LoopCount(numD) + LoopCount(numT)) :
         /\ particles' = createThermalPlasma(prm, numD, numT, draws, nextId)
         /\ nextId' = nextId + LoopCount(numD) + LoopCount(numT)
         /\ lastCall' = [kind |-> "createThermalPlasma", numD |-> numD,
                         numT |-> numT, before |-> particles]
    /\ calls' = calls + 1
    /\ UNCHANGED <<prm, pc, steps>>
    /\ UNCHANGED stepLocals
    /\ UNCHANGED stepGhosts
    /\ UNCHANGED mainVars

\* injectFuel(particles, numD, numT)
InjectFuelCall ==
    /\ calls < MaxSeedCalls
    /\ \E numD \in SeedCounts, numT \in SeedCounts :
       \E draws \in SeedDrawSeqs(LoopCount(numD) + LoopCount(numT)) :
         /\ particles' = injectFuel(prm, particles, numD, numT, draws, nextId)
         /\ nextId' = nextId + LoopCount(numD) + LoopCount(numT)
         /\ lastCall' = [kind |-> "injectFuel", numD |-> numD,
                         numT |-> numT, before |-> particles]
    /\ calls' = calls + 1
    /\ UNCHANGED <<prm, pc, steps>>
    /\ UNCHANGED stepLocals
    /\ UNCHANGED stepGhosts
    /\ UNCHANGED mainVars

NextSeed == CreateThermalPlasmaCall \/ InjectFuelCall

SpecSeed == InitSeed /\ [][NextSeed]_vars

\* ------------------------------------------------------------------ replay
\* Two executions: each constructs its own PlasmaPhysics, whose generator
\* std::random_device seeds, and makes the same calls on the same store.
InitReplay ==
    /\ SeedEngine
    /\ MainLocalsIdle
    /\ \E a \in RandomDevice, b \in RandomDevice :
         replay = <<[rng |-> a, particles |-> particles],
                    [rng |-> b, particles |-> particles]>>
    /\ sim = NoSim

\* One execution's injectFuel(particles, numD, numT).
EngineInject(run, numD, numT, id0) ==
    [rng |-> (run.rng + LoopCount(numD) + LoopCount(numT)) % 3,
     particles |-> injectFuel(prm, run.particles, numD, numT,
                              RngDraws(run.rng, LoopCount(numD) + LoopCount(numT)), id0)]

\* One execution's particles = createThermalPlasma(numD, numT).
EngineCreate(run, numD, numT, id0) ==
    [rng |-> (run.rng + LoopCount(numD) + LoopCount(numT)) % 3,
     particles |-> createThermalPlasma(prm, numD, numT,
                              RngDraws(run.rng, LoopCount(numD) + LoopCount(numT)), id0)]

ReplayWith(runs, numD, numT, kind) ==
    /\ replay' = runs
    /\ UNCHANGED sim
    /\ particles' = runs[1].particles
    /\ nextId' = nextId + LoopCount(numD) + LoopCount(numT)
    /\ lastCall' = [kind |-> kind, numD |-> numD, numT |-> numT, before |-> particles]
    /\ calls' = calls + 1
    /\ UNCHANGED <<prm, pc, steps>>
    /\ UNCHANGED stepLocals
    /\ UNCHANGED stepGhosts
    /\ UNCHANGED <<phase, simulationRunning, fusionCount, activeFlashes, stats,
                   fuelCooldown, frames, rendered, newFlashes>>

\* Both executions call injectFuel with the same counts.
ReplayInject ==
    /\ calls < MaxSeedCalls
    /\ \E numD \in SeedCounts, numT \in SeedCounts :
         ReplayWith([e \in 1..2 |-> EngineInject(replay[e], numD, numT, nextId)],
                    numD, numT, "injectFuel")

\* Both executions call createThermalPlasma with the same counts.
ReplayCreate ==
    /\ calls < MaxSeedCalls
    /\ \E numD \in SeedCounts, numT \in SeedCounts :
         ReplayWith([e \in 1..2 |-> EngineCreate(replay[e], numD, numT, nextId)],
                    numD, numT, "createThermalPlasma")

NextReplay == ReplayInject \/ ReplayCreate

SpecReplay == InitReplay /\ [][NextReplay]_vars

\* ---------------------------------------------------------------- ignition
\* Deuterium and Tritium records at the start of the ignition scenario, each.
FuelPairs == 100
\* The fusionBoost values of the scenario.
IgnitionBoosts == {F(1, 0), F(2, 3), F(1, 6)}

\* A running frame loop on 100 Deuterium and 100 Tritium, the engine as
\* constructed but for fusionBoost.
InitIgnition ==
    /\ \E b \in IgnitionBoosts : prm = [DefaultParams EXCEPT !.fusionBoost = b]
    /\ \E s \in RandomDevice :
         particles = createThermalPlasma(DefaultParams, FuelPairs, FuelPairs,
                                         RngDraws(s, 2 * FuelPairs), 1)
    /\ pc = "idle"
    /\ dt \in DtValues
    /\ i = 1
    /\ deuteriumIdx = <<>>
    /\ tritiumIdx = <<>>
    /\ newParticles = <<>>
    /\ expectedFusions = FZero
    /\ numFusions = 0
    /\ k = 0
    /\ nextId = 2 * FuelPairs + 1
    /\ steps = 0
    /\ calls = 0
    /\ stepStart = <<>>
    /\ reactions = 0
    /\ consumed = <<>>
    /\ skipped = 0
    /\ recovered = {}
    /\ sampledDone = FALSE
    /\ lastCall = NoCall
    /\ phase = "ui"
    /\ simulationRunning = TRUE
    /\ fusionCount = 0
    /\ activeFlashes = <<>>
    /\ stats = [heliumCount |-> 0, totalActive |-> 0]
    /\ fuelCooldown = FZero
    /\ frames = 0
    /\ rendered = NoCall
    /\ newFlashes = 0
    /\ replay = <<>>
    /\ sim = NoSim

\* The frame up to the flash detection.
NextIgnition ==
    \/ CountStatistics
    \/ UpdateBegin
    \/ SweepParticle
    \/ SampleFusions
    \/ React
    \/ Merge
    \/ DetectFusions

SpecIgnition == InitIgnition /\ [][NextIgnition]_vars

\* ---------------------------------------------------------- boundary calls
\* The engine between two calls, nothing counted yet.
EngineAtRest ==
    /\ pc = "idle"
    /\ i = 1
    /\ deuteriumIdx = <<>>
    /\ tritiumIdx = <<>>
    /\ newParticles = <<>>
    /\ expectedFusions = FZero
    /\ numFusions = 0
    /\ k = 0
    /\ steps = 0
    /\ calls = 0
    /\ stepStart = <<>>
    /\ reactions = 0
    /\ consumed = <<>>
    /\ skipped = 0
    /\ recovered = {}
    /\ sampledDone = FALSE
    /\ lastCall = NoCall

\* Positions of the particle checkBoundaryCollision3D is given: on the
\* magnetic axis, in the edge layer, just outside, outside and far outside.
BoundaryXs == {torusMajorR, F(159, -2), F(1605, -3), F(165, -2), F(2, 0), F(1, 6)}
BoundaryYs == {FZero, F(5, -2), F(1, -1), F(5, -1)}
BoundaryZs == {FZero, F(3, -1)}
BoundaryVs == {FZero, F(1, 0)}

\* One particle and the engine as constructed.
InitBoundary ==
    /\ prm = DefaultParams
    /\ \E x \in BoundaryXs, y \in BoundaryYs, z \in BoundaryZs, v \in BoundaryVs :
         particles = <<createParticle("DEUTERIUM", x, y, v, FZero, z, FZero, 1)>>
    /\ dt \in DtValues
    /\ nextId = 2
    /\ EngineAtRest
    /\ MainIdle

\* checkBoundaryCollision3D(particles[0], dt)
BoundaryCall ==
    /\ lastCall = NoCall
    /\ particles' = <<checkBoundaryCollision3D(prm, particles[1], dt, FZero)>>
    /\ lastCall' = [kind |-> "checkBoundaryCollision3D", before |-> particles[1]]
    /\ UNCHANGED <<prm, pc, dt, i, deuteriumIdx, tritiumIdx, newParticles,
                   expectedFusions, numFusions, k, nextId, steps, calls, stepStart,
                   reactions, consumed, skipped, recovered, sampledDone>>
    /\ UNCHANGED mainVars

SpecBoundary == InitBoundary /\ [][BoundaryCall]_vars

\* ------------------------------------------------------- electrostatic term
\* A record at rest at (x, y, 0).
AtRest(type, x, y, id) == createParticle(type, x, y, FZero, FZero, FZero, FZero, id)

\* Stores of records a few Debye lengths apart: fuel only, fuel with an
\* inactive record, and fuel with the products of a reaction.
CoulombStores ==
    {<<AtRest("DEUTERIUM", torusMajorR, FZero, 1), AtRest("TRITIUM", F(121, -2), FZero, 2),
       AtRest("DEUTERIUM", torusMajorR, F(1, -2), 3), AtRest("TRITIUM", F(15, -1), FZero, 4)>>,
     <<AtRest("DEUTERIUM", torusMajorR, FZero, 1),
       [AtRest("TRITIUM", F(121, -2), FZero, 2) EXCEPT !.active = FALSE],
       AtRest("DEUTERIUM", torusMajorR, F(1, -2), 3), AtRest("TRITIUM", F(121, -2), F(1, -2), 4)>>,
     <<AtRest("HELIUM", torusMajorR, FZero, 1), AtRest("NEUTRON", F(121, -2), FZero, 2),
       AtRest("DEUTERIUM", torusMajorR, F(1, -2), 3), AtRest("TRITIUM", F(121, -2), F(1, -2), 4)>>}

\* The engine after setEnableCoulomb(true or false) and
\* setMaxFusionFractionPerStep(2.0f).
CoulombParams ==
    {[DefaultParams EXCEPT !.enableCoulomb = c, !.maxFusionFractionPerStep = F(2, 0)] :
        c \in BOOLEAN}

InitCoulomb ==
    /\ prm \in CoulombParams
    /\ particles \in CoulombStores
    /\ dt = FZero
    /\ nextId = 5
    /\ EngineAtRest
    /\ MainIdle

NextCoulomb == UpdateBegin \/ SweepParticle \/ SampleFusions \/ React \/ Merge

SpecCoulomb == InitCoulomb /\ [][NextCoulomb]_vars

\* ------------------------------------------------------------ flash ageing
\* Reactions detected per run.
MaxFlashEvents == 2
\* deltaTime of a frame: main clamps it to at most 0.033; it is 0 when two
\* frames read the same glfwGetTime().
FlashDts == {FZero, F(33, -3)}

\* A running frame loop on a store that holds the Helium of every reaction
\* the run detects.
InitFlash ==
    /\ prm = DefaultParams
    /\ particles = [j \in 1..MaxFlashEvents |->
                      AtRest("HELIUM", torusMajorR,
                             IF j = 1 THEN FZero ELSE F(j - 1, -1), j)]
    /\ dt = FZero
    /\ nextId = MaxFlashEvents + 1
    /\ EngineAtRest
    /\ phase = "detect"
    /\ simulationRunning = TRUE
    /\ fusionCount = 0
    /\ activeFlashes = <<>>
    /\ stats = [heliumCount |-> 0, totalActive |-> MaxFlashEvents]
    /\ fuelCooldown = FZero
    /\ frames = 0
    /\ rendered = NoCall
    /\ newFlashes = 0
    /\ replay = <<>>
    /\ sim = NoSim

\* Lines 371-405 with the list `fls` that the detection left.
FlashFrameWith(d, fls) ==
    \E fl \in {AgedFlashes(fls, d)} :
      /\ activeFlashes' = fl
      /\ rendered' = [kind |-> "render", gpuParticles |-> <<>>,
                      gpuFlashes |-> CappedFlashes(fl),
                      numParticles |-> stats.totalActive]

\* One running frame with deltaTime d whose step produced newFusions: lines
\* 165-171, 310-337 and 371-405.
FlashFrame(d, newFusions) ==
    /\ phase = "detect"
    /\ dt' = d
    /\ fusionCount' = fusionCount + newFusions
    /\ newFlashes' = newFusions
    /\ FlashFrameWith(d, activeFlashes
                          \o FlashesFrom(particles, Len(particles), newFusions))
    /\ UNCHANGED <<particles, prm, nextId, calls, simulationRunning, stats,
                   fuelCooldown, frames, replay, sim, phase>>
    /\ UNCHANGED <<pc, i, deuteriumIdx, tritiumIdx, newParticles, expectedFusions,
                   numFusions, k, steps, stepStart, reactions, consumed, skipped,
                   recovered, sampledDone, lastCall>>

\* A frame whose deltaTime is positive.
PositiveFrame ==
    \E d \in FlashDts \ {FZero}, n \in 0..(MaxFlashEvents - fusionCount) :
        FlashFrame(d, n)

\* A frame that reads the same time as the one before it.
ZeroFrame == \E n \in 0..(MaxFlashEvents - fusionCount) : FlashFrame(FZero, n)

NextFlash == PositiveFrame \/ ZeroFrame

SpecFlash == InitFlash /\ [][NextFlash]_vars

\* ------------------------------------------------------------ fuel session
\* Scaled stand-in for GPURayTracer::MAX_PARTICLES (20000), above the
\* compaction limit as 20000 is above 15000.
MAX_PARTICLES == 7

\* Lines 262-266: the Manual Refuel button, handled at most once in a frame,
\* after the Start Injection button and before the statistics.  In a session
\* `calls` is the number of frames whose button has been passed.
ManualRefuel ==
    /\ phase = "ui"
    /\ frames < MaxFrames
    /\ calls <= frames
    /\ \E draws \in FuelDraws :
         particles' = injectFuel(prm, particles, fuelBatchSize, fuelBatchSize,
                                 draws, nextId)
    /\ nextId' = nextId + 2 * fuelBatchSize
    /\ calls' = frames + 1
    /\ UNCHANGED <<prm, phase, simulationRunning, fusionCount, activeFlashes, stats,
                   fuelCooldown, frames, rendered, newFlashes, replay, sim>>
    /\ UNCHANGED engineIdle

\* Lines 205-230 come before line 262 in the frame.
SessionStart == calls <= frames /\ StartInjection

NextSession ==
    \/ SessionStart
    \/ ManualRefuel
    \/ CountStatistics
    \/ UpdateBegin
    \/ SweepParticle
    \/ SampleFusions
    \/ React
    \/ Merge
    \/ DetectFusions
    \/ AutoFuel
    \/ Compact
    \/ AgeAndRender

SpecSession == InitFrame /\ [][NextSession]_vars

\* ----------------------------------------------------------- fuel cooldown
\* Frames per run: more than fuelCooldownTime / 0.033.
MaxCooldownFrames == 21

\* A running loop whose fuel is spent: the store holds the consumed pair and
\* its products, the cooldown has run out.  The engine burns every pair it
\* samples.
InitCooldown ==
    /\ prm = [DefaultParams EXCEPT !.maxFusionFractionPerStep = F(2, 0)]
    /\ particles = <<[AtRest("DEUTERIUM", torusMajorR, FZero, 1) EXCEPT !.active = FALSE],
                     [AtRest("TRITIUM", torusMajorR, F(1, -2), 2) EXCEPT !.active = FALSE],
                     AtRest("HELIUM", torusMajorR, FZero, 3),
                     AtRest("NEUTRON", torusMajorR, F(1, -2), 4)>>
    /\ dt \in DtValues
    /\ nextId = 5
    /\ EngineAtRest
    /\ phase = "ui"
    /\ simulationRunning = TRUE
    /\ fusionCount = 1
    /\ activeFlashes = <<>>
    /\ stats = [heliumCount |-> 0, totalActive |-> 0]
    /\ fuelCooldown = FZero
    /\ frames = 0
    /\ rendered = NoCall
    /\ newFlashes = 0
    /\ replay = <<>>
    /\ sim = NoSim

NextCooldown ==
    \/ CountStatisticsWithin(MaxCooldownFrames)
    \/ UpdateBeginWithin(MaxCooldownFrames)
    \/ SweepParticle
    \/ SampleFusions
    \/ React
    \/ Merge
    \/ DetectFusions
    \/ AutoFuel
    \/ Compact
    \/ AgeAndRender

SpecCooldown == InitCooldown /\ [][NextCooldown]_vars

\* ------------------------------------------------------------ mission mode
\* The browser prototype (neurofusion-reactor/app.js).  Texts, the score
\* breakdown, the clear times and the bridge fields of the challenge feed only
\* the report and are left out.

\* MISSION_PHASE_TEMPLATES (app.js 37-62).  duration and progressNeeded are
\* scaled stand-ins for 42, 40, 36 seconds and 18, 16, 14.
MISSION_PHASE_TEMPLATES ==
    <<[id |-> "stabilize-edge", mode |-> "mlp",
       duration |-> F(2, 0), progressNeeded |-> F(4, -1)],
      [id |-> "quench-hotspots", mode |-> "cnn",
       duration |-> F(2, 0), progressNeeded |-> F(3, -1)],
      [id |-> "spike-burn", mode |-> "snn",
       duration |-> F(1, 0), progressNeeded |-> F(2, -1)]>>

\* Mode changes the player makes during one mission.
MaxModeSwitches == 1

\* MODE_INFO's keys.
Modes == {"mlp", "cnn", "snn"}

\* dt of a frame: tick clamps it to [1/240, 1/20].
MissionDts == {F(5, -2)}

\* this.metrics, this.snn.spikeRate and the snapshot's peak and avg during a
\* mission: a plasma that holds, and one that is out of control.
MissionMetrics ==
    {[confinement |-> F(9, -1), instability |-> F(1, -1), coherence |-> F(9, -1),
      yield |-> F(9, -1), temperature |-> F(5, -1), spikeRate |-> F(2, -1),
      peak |-> F(6, -1), avg |-> F(5, -1)],
     [confinement |-> FZero, instability |-> F(1, 0), coherence |-> FZero,
      yield |-> FZero, temperature |-> F(1, 0), spikeRate |-> FZero,
      peak |-> F(1, 0), avg |-> F(2, -1)]}

\* Math.max, Math.min and clamp (line 3).
MathMax(a, b) == IF FGt(b, a) THEN b ELSE a
MathMin(a, b) == IF FLt(b, a) THEN b ELSE a
clamp(v, min, max) == MathMin(max, MathMax(min, v))

\* Math.round of a value that is not negative.
MathRound(x) == FFromInt(FTrunc(FAdd(x, F(5, -1))))

\* Lines 149-186.
createChallengeState ==
    [active |-> FALSE,
     state |-> "sandbox",
     timeLeft |-> F(118, 0),
     score |-> FZero,
     multiplier |-> F(1, 0),
     streak |-> FZero,
     integrity |-> F(1, 0),
     phaseIndex |-> 0,
     phaseProgress |-> FZero,
     manualPulseCharge |-> F(1, 0),
     manualPulseCooldown |-> FZero,
     flash |-> FZero,
     modeUsage |-> [mlp |-> FZero, cnn |-> FZero, snn |-> FZero],
     modeSwitches |-> 0,
     lastMode |-> "mlp",
     summary |-> "none",
     reportVisible |-> FALSE]

\* Lines 314-316: phases[phaseIndex] || null.
NoPhase == [id |-> "none"]
getCurrentPhase(c) ==
    IF c.phaseIndex < Len(MISSION_PHASE_TEMPLATES)
    THEN MISSION_PHASE_TEMPLATES[c.phaseIndex + 1]
    ELSE NoPhase

\* Lines 276-286.
setMode(s, mode) ==
    IF s.challenge.state = "running" /\ s.mode # mode
    THEN [s EXCEPT !.mode = mode,
                   !.challenge.modeSwitches = @ + 1,
                   !.challenge.lastMode = mode,
                   !.challenge.flash = MathMax(@, F(35, -2))]
    ELSE [s EXCEPT !.mode = mode]

\* phases.reduce((sum, p) => sum + p.duration, 0) of line 324.
RECURSIVE SumDurations(_)
SumDurations(n) ==
    IF n = 0 THEN FZero
    ELSE FAdd(SumDurations(n - 1), MISSION_PHASE_TEMPLATES[n].duration)

\* Lines 321-336: the challenge startChallenge builds.
RunningChallenge ==
    [createChallengeState EXCEPT !.active = TRUE,
                                 !.state = "running",
                                 !.timeLeft = SumDurations(Len(MISSION_PHASE_TEMPLATES))]

\* Lines 318-344 with fromReseed = true.
startChallengeFromReseed(s) ==
    setMode([s EXCEPT !.challenge = RunningChallenge],
            getCurrentPhase(RunningChallenge).mode)

\* Lines 255-274.
reseed(s) ==
    IF s.challenge.state = "running" THEN startChallengeFromReseed(s)
    ELSE [s EXCEPT !.challenge = createChallengeState]

\* Lines 318-344 with fromReseed = false: the state is built and reseed
\* builds it again.
startChallenge(s) == reseed([s EXCEPT !.challenge = RunningChallenge])

\* Lines 354-360.
addMissionScore(c, amount) ==
    IF ~IsFinite(amount) \/ amount.m = 0 THEN c
    ELSE [c EXCEPT !.score = MathMax(FZero, FAdd(c.score, amount))]

\* Lines 362-390.
captureMissionSummary(c, outcome) ==
    [c EXCEPT !.summary = outcome, !.reportVisible = TRUE]

\* Line 512.
ClearBonus(c) ==
    MathRound(FAdd(FAdd(F(800, 0), FMul(c.timeLeft, F(5, 0))),
                   FMul(c.integrity, F(350, 0))))

\* Lines 513-520.
PhaseCleared(c) ==
    [addMissionScore(c, ClearBonus(c)) EXCEPT
        !.phaseIndex = @ + 1,
        !.phaseProgress = FZero,
        !.streak = FZero,
        !.multiplier = MathMin(F(5, 0), FAdd(c.multiplier, F(35, -2))),
        !.flash = F(1, 0)]

\* Lines 522-535, for the challenge c that lines 513-520 left.
AdvancedTo(s, c) ==
    IF c.phaseIndex >= Len(MISSION_PHASE_TEMPLATES)
    THEN [s EXCEPT !.challenge =
             captureMissionSummary([c EXCEPT !.state = "won", !.active = FALSE], "won")]
    ELSE setMode([s EXCEPT !.challenge = c], getCurrentPhase(c).mode)

\* Lines 508-536.
advanceMissionPhase(s) ==
    IF getCurrentPhase(s.challenge) = NoPhase THEN s
    ELSE AdvancedTo(s, PhaseCleared(s.challenge))

\* Lines 538-548.
failMission(s) ==
    [s EXCEPT !.challenge =
        captureMissionSummary([s.challenge EXCEPT !.state = "lost", !.active = FALSE,
                                                  !.flash = F(1, 0)], "lost")]

\* Lines 552-558.
PulseRecharge(c, m, dtime) ==
    [c EXCEPT
       !.flash = MathMax(FZero, FSub(c.flash, FMul(dtime, F(16, -1)))),
       !.manualPulseCooldown = MathMax(FZero, FSub(c.manualPulseCooldown, dtime)),
       !.manualPulseCharge =
          clamp(FAdd(c.manualPulseCharge,
                     FMul(dtime, FAdd(F(18, -2),
                                   FMul(FSub(F(1, 0), m.instability), F(22, -2))))),
                FZero, F(1, 0))]

\* Lines 577-595: stableScore of the phase.
PhaseStability(id, m) ==
    IF id = "stabilize-edge"
    THEN FAdd(FAdd(FMul(FSub(m.confinement, F(62, -2)), F(23, -1)),
                   FMul(FSub(F(38, -2), m.instability), F(18, -1))),
              FMul(FSub(m.coherence, F(55, -2)), F(12, -1)))
    ELSE IF id = "quench-hotspots"
    THEN FAdd(FAdd(FMul(FSub(F(72, -2),
                             FMul(MathMax(FZero, FSub(m.peak, m.avg)), F(18, -1))),
                        F(125, -2)),
                   FMul(FSub(m.coherence, F(58, -2)), F(14, -1))),
              FMul(FSub(F(48, -2), m.instability), F(13, -1)))
    ELSE IF id = "spike-burn"
    THEN FAdd(FAdd(FAdd(FMul(FSub(m.yield, F(42, -2)), F(18, -1)),
                        FMul(FSub(m.coherence, F(52, -2)), F(11, -1))),
                   FMul(FSub(F(58, -2), m.instability), F(12, -1))),
              FMul(FSub(m.spikeRate, F(8, -2)), F(14, -1)))
    ELSE FZero

\* Lines 597-598.
StableScore(ph, m, modeMatch) ==
    FAdd(PhaseStability(ph.id, m), IF modeMatch THEN F(25, -2) ELSE F(-35, -2))

\* Lines 600-614 for stableScore = st.
Progressed(c, ph, st, dtime) ==
    IF FGt(st, FZero)
    THEN [c EXCEPT
            !.phaseProgress =
               clamp(FAdd(c.phaseProgress,
                          FMul(dtime, FAdd(F(65, -2), FMul(st, F(65, -2))))),
                     FZero, ph.progressNeeded),
            !.streak = clamp(FAdd(c.streak, dtime), FZero, F(16, 0))]
    ELSE [c EXCEPT
            !.phaseProgress =
               MathMax(FZero,
                       FSub(c.phaseProgress,
                            FMul(dtime, FAdd(F(22, -2), FMul(FAbs(st), F(18, -2)))))),
            !.streak = MathMax(FZero, FSub(c.streak, FMul(dtime, F(2, 0))))]

\* Line 614.
Multiplied(c) ==
    [c EXCEPT !.multiplier = clamp(FAdd(F(1, 0), FDiv(c.streak, F(5, 0))),
                                   F(1, 0), F(45, -1))]

\* Lines 615-617.
BaseRate(c, m) ==
    FMul(FSub(FAdd(FAdd(FMul(m.yield, F(280, 0)), FMul(m.confinement, F(120, 0))),
                   FMul(m.coherence, F(70, 0))),
              FMul(m.instability, F(90, 0))),
         c.multiplier)

\* Lines 621-630.
ModeBonusRate(id, m) ==
    IF id = "stabilize-edge"
    THEN MathMax(FZero, FAdd(FMul(FSub(m.confinement, F(7, -1)), F(180, 0)),
                             FMul(FSub(F(28, -2), m.instability), F(120, 0))))
    ELSE IF id = "quench-hotspots"
    THEN MathMax(FZero,
                 FAdd(FMul(FSub(F(22, -2), MathMax(FZero, FSub(m.peak, m.avg))),
                           F(220, 0)),
                      FMul(FSub(m.coherence, F(78, -2)), F(140, 0))))
    ELSE IF id = "spike-burn"
    THEN MathMax(FZero, FAdd(FMul(FSub(m.yield, F(46, -2)), F(260, 0)),
                             FMul(FSub(m.spikeRate, F(12, -2)), F(160, 0))))
    ELSE FZero

\* Line 632.
ModePenaltyRate(m) ==
    FAdd(F(34, 0), FMul(MathMax(FZero, FSub(m.instability, F(45, -2))), F(85, 0)))

\* Lines 634-636 for the rates of lines 615-632.
ScoredWith(c, base, bonus, penalty, dtime) ==
    addMissionScore(
        addMissionScore(addMissionScore(c, FMul(base, dtime)),
                        IF FGt(bonus, FZero) THEN FMul(bonus, dtime) ELSE FZero),
        IF FGt(penalty, FZero) THEN FMul(FNeg(penalty), dtime) ELSE FZero)

\* Lines 619-636.
Scored(c, ph, m, modeMatch, dtime) ==
    ScoredWith(c, BaseRate(c, m),
               IF modeMatch THEN ModeBonusRate(ph.id, m) ELSE FZero,
               IF modeMatch THEN FZero ELSE ModePenaltyRate(m), dtime)

\* Lines 638-642.
Damage(m, modeMatch) ==
    FAdd(FAdd(FMul(MathMax(FZero, FSub(m.instability, F(72, -2))), F(55, -2)),
              FMul(MathMax(FZero, FSub(m.temperature, F(93, -2))), F(25, -2))),
         IF modeMatch THEN FZero ELSE F(35, -3))
Repair(m) ==
    FAdd(FMul(MathMax(FZero, FSub(m.confinement, F(68, -2))), F(12, -2)),
         FMul(MathMax(FZero, FSub(m.coherence, F(7, -1))), F(8, -2)))

\* Line 643.
Worn(c, m, modeMatch, dtime) ==
    [c EXCEPT !.integrity =
        clamp(FAdd(c.integrity, FMul(FSub(Repair(m), Damage(m, modeMatch)), dtime)),
              FZero, F(1, 0))]

\* Lines 645-657, for the challenge c that lines 565-643 left.
Judged(s, c, ph) ==
    IF FGe(c.phaseProgress, ph.progressNeeded)
    THEN advanceMissionPhase([s EXCEPT !.challenge = c])
    ELSE IF FLe(c.integrity, FZero) \/ FLe(c.timeLeft, FZero)
    THEN failMission([s EXCEPT !.challenge = c])
    ELSE [s EXCEPT !.challenge = c]

\* Lines 572-657, for the phase and modeMatch of lines 566-572.
RunPhase(s, c, ph, modeMatch, dtime) ==
    Judged(s,
           Worn(Scored(Multiplied(Progressed(c, ph,
                                             StableScore(ph, s.metrics, modeMatch),
                                             dtime)),
                       ph, s.metrics, modeMatch, dtime),
                s.metrics, modeMatch, dtime),
           ph)

\* Lines 574-576.
ModeUsed(c, mode, dtime) == [c EXCEPT !.modeUsage[mode] = FAdd(@, dtime)]

\* Lines 565-657, for the challenge c with the time taken off.
RunMission(s, c, dtime) ==
    IF getCurrentPhase(c) = NoPhase THEN [s EXCEPT !.challenge = c]
    ELSE RunPhase(s, ModeUsed(c, s.mode, dtime), getCurrentPhase(c),
                  s.mode = getCurrentPhase(c).mode, dtime)

\* Variant of the update that runs the mission whatever its state.
UpdateWhateverState(s, c, dtime) ==
    RunMission(s, [c EXCEPT !.timeLeft = MathMax(FZero, FSub(c.timeLeft, dtime))], dtime)

\* Lines 560-565, for the challenge c that lines 552-558 left.
UpdateFrom(s, c, dtime) ==
    IF c.state # "running" THEN [s EXCEPT !.challenge = c]
    ELSE RunMission(s, [c EXCEPT !.timeLeft = MathMax(FZero, FSub(c.timeLeft, dtime))], dtime)

\* Lines 550-658.
updateMission(s, dtime) == UpdateFrom(s, PulseRecharge(s.challenge, s.metrics, dtime), dtime)

\* The page loaded: the constructor's object (lines 65-147), the engine of
\* the desktop program not running.
InitMission ==
    /\ prm = DefaultParams
    /\ particles = <<>>
    /\ dt = FZero
    /\ nextId = 1
    /\ EngineAtRest
    /\ MainLocalsIdle
    /\ replay = <<>>
    /\ \E m \in MissionMetrics :
         sim = [kind |-> "sim", mode |-> "mlp", metrics |-> m,
                challenge |-> createChallengeState]

\* What the browser prototype never touches.
desktopVars == <<particles, prm, pc, nextId, steps, calls, lastCall, phase,
                 simulationRunning, fusionCount, activeFlashes, stats, fuelCooldown,
                 frames, rendered, newFlashes, replay, stepLocals, stepGhosts>>

\* Lines 845-861: a frame that is not paused.
Tick ==
    /\ \E d \in MissionDts : sim' = updateMission(sim, d)
    /\ UNCHANGED desktopVars

\* Lines 346-348, 2205, 2404-2405, 2500: Enter, Start Challenge, Start
\* Mission and the report's restart button.  The reseeded plasma settles to
\* either set of metrics.
RestartChallenge ==
    /\ \E m \in MissionMetrics : sim' = startChallenge([sim EXCEPT !.metrics = m])
    /\ UNCHANGED desktopVars

\* Lines 2239, 2403: the R key and the Reset button.
Reseed ==
    /\ \E m \in MissionMetrics : sim' = reseed([sim EXCEPT !.metrics = m])
    /\ UNCHANGED desktopVars

\* Lines 2211-2213: the keys 1, 2, 3.
SetMode ==
    /\ sim.challenge.state = "running" => sim.challenge.modeSwitches < MaxModeSwitches
    /\ \E mode \in Modes : sim' = setMode(sim, mode)
    /\ UNCHANGED desktopVars

NextMission == Tick \/ RestartChallenge \/ Reseed \/ SetMode

SpecMission == InitMission /\ [][NextMission]_vars

\* -------------------------------------------------------------- properties
\* Indices of the active records of `type` in a store, ascending.
ActiveIndices(ps, type) ==
    SelectSeq([j \in 1..Len(ps) |-> j], LAMBDA j : ps[j].active /\ ps[j].type = type)

\* Number of active records of `type` in a store.
ActiveOf(ps, type) == Len(ActiveIndices(ps, type))

\* Number of active records in a store.
ActiveCount(ps) == Cardinality({j \in 1..Len(ps) : ps[j].active})

\* The records the current step has produced so far: the store and, until
\* the merge, the pending buffer.
StoreNow == IF pc = "idle" THEN particles ELSE particles \o newParticles

\* The m-th reaction of the current step consumed a record of `type` that
\* was active when the step began and is inactive now.
ConsumedWas(serial, type) ==
    \E j \in 1..Len(stepStart) :
        /\ stepStart[j].id = serial
        /\ stepStart[j].type = type
        /\ stepStart[j].active
        /\ ~particles[j].active

\* The serial numbers of the reactants consumed in the current step.
ConsumedSet == {consumed[m] : m \in 1..Len(consumed)}

\* C1: every reaction of a step deactivates one Deuterium and one Tritium
\* that were active and adds one active Helium-4 and one active Neutron, so
\* with wallLossProbability = 0 the number of active particles after the
\* step equals the number before it, whatever the number of reactions.
C1_FusionExchange ==
    (steps > 0 /\ prm.wallLossProbability = FZero) =>
        /\ ActiveOf(StoreNow, "DEUTERIUM") = ActiveOf(stepStart, "DEUTERIUM") - reactions
        /\ ActiveOf(StoreNow, "TRITIUM") = ActiveOf(stepStart, "TRITIUM") - reactions
        /\ ActiveOf(StoreNow, "HELIUM") = ActiveOf(stepStart, "HELIUM") + reactions
        /\ ActiveOf(StoreNow, "NEUTRON") = ActiveOf(stepStart, "NEUTRON") + reactions
        /\ \A m \in 1..reactions :
              /\ ConsumedWas(consumed[2 * m - 1], "DEUTERIUM")
              /\ ConsumedWas(consumed[2 * m], "TRITIUM")
        /\ pc = "idle" => ActiveCount(particles) = ActiveCount(stepStart)

\* A step has returned after at least one reaction, with as many active
\* particles as it started with and a longer store.
C1_Witness ==
    /\ pc = "idle"
    /\ reactions >= 1
    /\ prm.wallLossProbability = FZero
    /\ ActiveCount(particles) = ActiveCount(stepStart)
    /\ Len(particles) = Len(stepStart) + 2 * reactions

\* C2: the candidate lists, ND and NT are the Deuterium and Tritium records
\* that were active when the step began (no record created in the step is
\* listed, no deactivation of the step removes an entry), and
\* expectedFusions is computed from those populations.
C2_StepStartPopulation ==
    steps > 0 =>
        /\ pc = "sweep" =>
              /\ deuteriumIdx = SelectSeq(ActiveIndices(stepStart, "DEUTERIUM"),
                                          LAMBDA j : j < i)
              /\ tritiumIdx = SelectSeq(ActiveIndices(stepStart, "TRITIUM"),
                                        LAMBDA j : j < i)
        /\ pc # "sweep" =>
              /\ deuteriumIdx = ActiveIndices(stepStart, "DEUTERIUM")
              /\ tritiumIdx = ActiveIndices(stepStart, "TRITIUM")
        /\ (pc \in {"react", "merge"} /\ sampledDone) =>
              expectedFusions =
                  ExpectedFusions(prm, ActiveOf(stepStart, "DEUTERIUM"),
                                  ActiveOf(stepStart, "TRITIUM"),
                                  Min(ActiveOf(stepStart, "DEUTERIUM"),
                                      ActiveOf(stepStart, "TRITIUM")), dt)

\* The reaction loop has ended after a reaction while the lists still hold
\* a Deuterium record that the sweep of this step lost to the wall and the
\* Tritium record that the reaction consumed.
C2_Witness ==
    /\ pc = "merge"
    /\ reactions >= 1
    /\ \E n \in 1..Len(deuteriumIdx) :
          /\ ~particles[deuteriumIdx[n]].active
          /\ particles[deuteriumIdx[n]].id \notin ConsumedSet
    /\ \E n \in 1..Len(tritiumIdx) :
          /\ ~particles[tritiumIdx[n]].active
          /\ particles[tritiumIdx[n]].id \in ConsumedSet

\* C3: until the merge the store keeps its length and every record its
\* index; the products wait in the buffer, Helium-4 then Neutron per
\* reaction in creation order, and the merge appends the buffer, in that
\* order, behind the existing records.
C3_PendingBuffer ==
    steps > 0 =>
        /\ pc # "idle" => Len(particles) = Len(stepStart)
        /\ pc = "idle" => Len(particles) = Len(stepStart) + Len(newParticles)
        /\ \A j \in 1..Len(stepStart) : particles[j].id = stepStart[j].id
        /\ pc = "idle" =>
              \A m \in 1..Len(newParticles) :
                  particles[Len(stepStart) + m] = newParticles[m]
        /\ pc \in {"sweep", "sample"} => newParticles = <<>>
        /\ \A m \in 1..Len(newParticles) :
              newParticles[m].type = IF m % 2 = 1 THEN "HELIUM" ELSE "NEUTRON"
        /\ \A m \in 1..(Len(newParticles) - 1) :
              newParticles[m].id < newParticles[m + 1].id

\* A step with two reactions has returned: four products behind the records
\* the step began with.
C3_Witness ==
    /\ pc = "idle"
    /\ reactions = 2
    /\ Len(particles) = Len(stepStart) + 4
    /\ particles[Len(stepStart) + 1].type = "HELIUM"
    /\ particles[Len(stepStart) + 4].type = "NEUTRON"

\* No serial number occurs twice in a sequence.
NoDuplicates(seq) ==
    \A a, b \in 1..Len(seq) : a # b => seq[a] # seq[b]

Max(a, b) == IF a > b THEN a ELSE b

\* The counts of the reaction loop: no reactant consumed twice, every
\* iteration either a reaction or a skip, two products per reaction.
C4_Counts ==
    steps > 0 =>
        /\ NoDuplicates(consumed)
        /\ Len(consumed) = 2 * reactions
        /\ reactions + skipped = k
        /\ reactions <= Max(0, numFusions)
        /\ Len(newParticles) = 2 * reactions
        /\ pc = "idle" => Len(particles) - Len(stepStart) = 2 * reactions

\* An iteration of the reaction loop that skips its pair changes neither the
\* store nor the buffer.
C4_SkipChangesNothing ==
    (pc = "react" /\ skipped' = skipped + 1) =>
        /\ particles' = particles
        /\ newParticles' = newParticles
        /\ reactions' = reactions

\* C4: within a step no particle is consumed by two reactions; a sampled
\* pair with an inactive member is skipped without products or state
\* change, so the reactions carried out number at most numFusions and the
\* products merged are twice the reactions.
C4_NoDoubleConsumption == []C4_Counts /\ [][C4_SkipChangesNothing]_vars

\* A step in which one sampled pair reacted and another was skipped.
C4_Witness ==
    /\ reactions >= 1
    /\ skipped >= 1
    /\ Len(newParticles) = 2 * reactions

\* C5: when updateParticles has returned, every record of the store has
\* finite position and velocity components.
C5_AllFiniteAtReturn ==
    (pc = "idle" /\ steps > 0) =>
        \A j \in 1..Len(particles) : ~NonFinite(particles[j])

\* The record is on the magnetic axis and at rest.
OnAxisAtRest(p) ==
    /\ p.y = FZero
    /\ RadiusXZ(p.x, p.z) = torusMajorR
    /\ p.vx = FZero /\ p.vy = FZero /\ p.vz = FZero

\* C6: a record that was non-finite after integration is put on the
\* magnetic axis at rest, at its index, with its type, mass and charge; the
\* boundary check that follows neither moves nor deactivates it (it is
\* active through the sweep and stays so unless a reaction of the same step
\* consumes it).
C6_RecoveredOnAxis ==
    \A j \in recovered :
        /\ j \in 1..Len(particles)
        /\ OnAxisAtRest(particles[j])
        /\ particles[j].id = stepStart[j].id
        /\ particles[j].type = stepStart[j].type
        /\ particles[j].mass = stepStart[j].mass
        /\ particles[j].charge = stepStart[j].charge
        /\ stepStart[j].active
        /\ pc \in {"sweep", "sample"} => particles[j].active
        /\ particles[j].active \/ particles[j].id \in ConsumedSet

\* A step that recovered a record has returned.
C6_Witness ==
    /\ pc = "idle"
    /\ recovered # {}
    /\ \E j \in recovered : NonFinite(stepStart[j]) /\ particles[j].active

\* maxPairs * maxFusionFractionPerStep, as line 172 computes it.
FractionOfPairs == FMul(FFromInt(maxPairs), prm.maxFusionFractionPerStep)

\* The sampling block of the current step has run and its parameters are
\* still the engine's.
Sampled == pc \in {"react", "merge"} /\ sampledDone

FloorOfProduct(n, f) ==
    IF f.e >= 0 THEN n * f.m * Pow10(f.e)
    ELSE IF f.e < -9 THEN (IF f.m < 0 THEN -1 ELSE 0)
    ELSE (n * f.m) \div Pow10(-f.e)

\* C8: the reactions of a step (and the sampled count) number at most
\* floor(maxPairs * maxFusionFractionPerStep), zero for a negative fraction,
\* and at most maxPairs.
C8_ReactionCap ==
    (steps > 0 /\ pc \in {"sample", "react", "merge"}
       /\ IsFinite(prm.maxFusionFractionPerStep)) =>
        /\ reactions <= maxPairs
        /\ reactions <= Max(0, FloorOfProduct(maxPairs, prm.maxFusionFractionPerStep))
        /\ Sampled =>
              /\ numFusions <= maxPairs
              /\ numFusions <= Max(0, FloorOfProduct(maxPairs,
                                                     prm.maxFusionFractionPerStep))

\* With a fraction above 1 every pair has reacted.
C8_Witness ==
    /\ pc = "merge"
    /\ FGt(prm.maxFusionFractionPerStep, F(1, 0))
    /\ maxPairs >= 2
    /\ reactions = maxPairs

\* The last call was a direct call of attemptFusion.
Called == lastCall.kind = "attemptFusion"

\* The pair of the last call is further apart than the interaction distance
\* (the records of a pair differ in x only).
FarApart ==
    FGt(FAbs(FSub(lastCall.p2.x, lastCall.p1.x)), F(3, -2))

\* The record is an active product of `type` at the centre of mass of the
\* last call's pair.
ProductAtCm(p, type) ==
    /\ p.type = type
    /\ p.active
    /\ p.x = MassWeighted(lastCall.p1, lastCall.p2, lastCall.p1.x, lastCall.p2.x)
    /\ p.y = MassWeighted(lastCall.p1, lastCall.p2, lastCall.p1.y, lastCall.p2.y)
    /\ p.z = MassWeighted(lastCall.p1, lastCall.p2, lastCall.p1.z, lastCall.p2.z)

\* C9: a forced attemptFusion returns true whatever the pair and the
\* parameters; it appends one Helium-4 then one Neutron, active and at the
\* centre of mass, to the buffer and sets both reactants inactive.
C9_ForcedFusion ==
    (Called /\ lastCall.force) =>
        /\ lastCall.ret
        /\ Len(newParticles) = Len(lastCall.buffer) + 2
        /\ SubSeq(newParticles, 1, Len(lastCall.buffer)) = lastCall.buffer
        /\ ProductAtCm(newParticles[Len(newParticles) - 1], "HELIUM")
        /\ ProductAtCm(newParticles[Len(newParticles)], "NEUTRON")
        /\ particles[1] = [lastCall.p1 EXCEPT !.active = FALSE]
        /\ particles[2] = [lastCall.p2 EXCEPT !.active = FALSE]

\* A forced call on a pair that no gate would let through: too slow and too
\* far apart.
C9_Witness ==
    /\ Called
    /\ lastCall.force
    /\ lastCall.ret
    /\ FarApart
    /\ FLt(CmEnergy(lastCall.p1, lastCall.p2, RelativeSpeed(lastCall.p1, lastCall.p2)),
           FUSION_THRESHOLD_ENERGY)

\* C10: an attemptFusion that returns false was not forced and has changed
\* neither particle nor the buffer; a non-forced call on a pair further
\* apart than the interaction distance returns false.
C10_FailedFusion ==
    Called =>
        /\ ~lastCall.ret =>
              /\ ~lastCall.force
              /\ particles = <<lastCall.p1, lastCall.p2>>
              /\ newParticles = lastCall.buffer
        /\ (~lastCall.force /\ FarApart) => ~lastCall.ret

\* A non-forced call that passed the energy gate and failed on the distance
\* of an active pair.
C10_Witness ==
    /\ Called
    /\ ~lastCall.force
    /\ ~lastCall.ret
    /\ FarApart
    /\ lastCall.p1.active /\ lastCall.p2.active
    /\ ~FLt(CmEnergy(lastCall.p1, lastCall.p2, RelativeSpeed(lastCall.p1, lastCall.p2)),
            FUSION_THRESHOLD_ENERGY)

\* The records of the engine: the store and the pending buffer.
AllRecords(ps, buf) == {ps[j] : j \in 1..Len(ps)} \cup {buf[j] : j \in 1..Len(buf)}

\* The mass the species table gives.
MassTable(type) ==
    CASE type = "DEUTERIUM" -> DEUTERIUM_MASS
      [] type = "TRITIUM" -> TRITIUM_MASS
      [] type = "HELIUM" -> HELIUM_MASS
      [] type = "NEUTRON" -> NEUTRON_MASS
      [] type = "ELECTRON" -> ELECTRON_MASS

\* The charge the species table gives: +e, +e, +2e, 0, -e.
ChargeTable(type) ==
    CASE type = "DEUTERIUM" -> ELEMENTARY_CHARGE
      [] type = "TRITIUM" -> ELEMENTARY_CHARGE
      [] type = "HELIUM" -> FMul(F(2, 0), ELEMENTARY_CHARGE)
      [] type = "NEUTRON" -> FZero
      [] type = "ELECTRON" -> FNeg(ELEMENTARY_CHARGE)

\* Every record has a positive mass and its species' mass and charge.
C11_TableHolds ==
    \A p \in AllRecords(particles, newParticles) :
        /\ FGt(p.mass, FZero)
        /\ p.mass = MassTable(p.type)
        /\ p.charge = ChargeTable(p.type)

\* A step of the frame loop leaves type, mass and charge of every record it
\* keeps as they were.
C11_RecordsKeepSpecies ==
    \A p \in AllRecords(particles, newParticles) :
        \A q \in AllRecords(particles', newParticles') :
            q.id = p.id => /\ q.type = p.type
                           /\ q.mass = p.mass
                           /\ q.charge = p.charge

\* C11: in every state of the frame loop each record has mass > 0 and the
\* mass and charge of its species (D +e, T +e, He-4 +2e, Neutron 0,
\* Electron -e), and no step (integration, boundary response, recovery,
\* fusion, injection, the Start Injection kick, compaction) changes the
\* type, mass or charge of a record.
C11_SpeciesTable == []C11_TableHolds /\ [][C11_RecordsKeepSpecies]_vars

\* Two frames have run: the store holds a Helium-4, a Neutron and an
\* injected record, a record was recovered in the last step and the store
\* has been compacted.
C11_Witness ==
    /\ phase = "ui"
    /\ frames = 2
    /\ simulationRunning
    /\ recovered # {}
    /\ \E j \in 1..Len(particles) : particles[j].type = "HELIUM"
    /\ \E j \in 1..Len(particles) : particles[j].type = "NEUTRON"
    /\ \E j \in 1..Len(particles) :
          particles[j].type = "DEUTERIUM" /\ particles[j].id > 2 * NumSeed
    /\ \E j \in 1..(Len(particles) - 1) : particles[j].id + 1 < particles[j + 1].id

\* The records of `type` in a store.
CountOf(ps, type) == Cardinality({j \in 1..Len(ps) : ps[j].type = type})

\* The distance of a record from the centreline of the torus.
MinorOffset(p) == Norm3(FSub(RadiusXZ(p.x, p.z), torusMajorR), p.y, FZero)

\* C12: createThermalPlasma(ND, NT) returns max(ND, 0) + max(NT, 0) records,
\* all active, the Deuterium first and then the Tritium, each at most
\* 0.85 * torusMinorR from the centreline and with signed distance <= 0.
C12_ThermalPlasma ==
    lastCall.kind = "createThermalPlasma" =>
        /\ Len(particles) = Max(lastCall.numD, 0) + Max(lastCall.numT, 0)
        /\ CountOf(particles, "DEUTERIUM") = Max(lastCall.numD, 0)
        /\ CountOf(particles, "TRITIUM") = Max(lastCall.numT, 0)
        /\ \A j \in 1..Len(particles) :
              /\ particles[j].active
              /\ particles[j].type =
                    IF j <= lastCall.numD THEN "DEUTERIUM" ELSE "TRITIUM"
              /\ FLe(MinorOffset(particles[j]), FMul(F(85, -2), torusMinorR))
              /\ FLe(torusSDF(particles[j].x, particles[j].y, particles[j].z), FZero)

\* A call with two of each species, one record of which sits at the largest
\* offset, 0.85 * torusMinorR.
C12_Witness ==
    /\ lastCall.kind = "createThermalPlasma"
    /\ lastCall.numD = 2 /\ lastCall.numT = 2
    /\ Len(particles) = 4
    /\ \E j \in 1..4 : MinorOffset(particles[j]) = FMul(F(85, -2), torusMinorR)

\* C13: injectFuel leaves the records the store held as they were and in
\* their places, inactive ones included, and appends max(numD, 0) active
\* Deuterium followed by max(numT, 0) active Tritium at the end.
C13_InjectAppends ==
    lastCall.kind = "injectFuel" =>
        /\ Len(particles) =
              Len(lastCall.before) + Max(lastCall.numD, 0) + Max(lastCall.numT, 0)
        /\ SubSeq(particles, 1, Len(lastCall.before)) = lastCall.before
        /\ \A j \in (Len(lastCall.before) + 1)..Len(particles) :
              /\ particles[j].active
              /\ particles[j].type =
                    IF j - Len(lastCall.before) <= lastCall.numD
                    THEN "DEUTERIUM" ELSE "TRITIUM"
              /\ \A h \in 1..Len(lastCall.before) :
                    lastCall.before[h].id # particles[j].id

\* An injection of both species into a store that holds an inactive record.
C13_Witness ==
    /\ lastCall.kind = "injectFuel"
    /\ lastCall.numD >= 1 /\ lastCall.numT >= 1
    /\ \E h \in 1..Len(lastCall.before) : ~lastCall.before[h].active
    /\ \E h \in 1..Len(lastCall.before) : lastCall.before[h].active

\* The getters of the parameters that have a stated range (lines 55, 65, 73).
getTimeScale == prm.timeScale
getMaxFusionFractionPerStep == prm.maxFusionFractionPerStep
getWallLossProbability == prm.wallLossProbability

UnitInterval(v) == FLe(FZero, v) /\ FLe(v, F(1, 0))

\* C14: the getters return a time scale >= 0 and a max fusion fraction per
\* step and a wall-loss probability within [0, 1], whatever the setters were
\* called with.
C14_GettersInRange ==
    /\ FLe(FZero, getTimeScale)
    /\ UnitInterval(getMaxFusionFractionPerStep)
    /\ UnitInterval(getWallLossProbability)

\* The record attemptFusion consumed in this step of the model.
ConsumedNow(id) ==
    /\ pc = "react"
    /\ \E m \in (Len(consumed) + 1)..Len(consumed') : consumed'[m] = id

\* The record the sweep is at was outside the torus at its boundary check,
\* and the wall-loss probability is positive.
LostAtWallNow(id) ==
    /\ pc = "sweep"
    /\ i <= Len(particles)
    /\ particles[i].id = id
    /\ FGt(prm.wallLossProbability, FZero)
    /\ \E r \in RecoverDraws :
         DrawsWallLoss(prm, Recovered(Advance(prm, particles, i, scaledDt)[i], r))

C15_ActiveOnlyCleared ==
    \A p \in AllRecords(particles, newParticles) :
        \A q \in AllRecords(particles', newParticles') :
            q.id = p.id =>
                /\ q.active => p.active
                /\ (p.active /\ ~q.active) => (ConsumedNow(p.id) \/ LostAtWallNow(p.id))

\* C15: no step sets the active flag of a record from false to true, and a
\* step clears it only when attemptFusion consumes the record or when the
\* sweep finds it outside the torus (signed distance > 0) with a wall-loss
\* probability > 0.
C15_ActiveMonotone == [][C15_ActiveOnlyCleared]_vars

\* The store after the first frame's step and auto-fuel holds a record a
\* reaction consumed and a fuel record lost at the wall, both inactive.
C15_Witness ==
    /\ phase = "compact"
    /\ frames = 0
    /\ \E j \in 1..Len(particles) :
         ~particles[j].active /\ particles[j].id \in ConsumedSet
    /\ \E j \in 1..Len(particles) :
         /\ ~particles[j].active
         /\ particles[j].id \notin ConsumedSet
         /\ particles[j].type \in {"DEUTERIUM", "TRITIUM"}

\* The store keeps its records, in their places, and may have grown at the end.
StoreKept ==
    /\ Len(particles') >= Len(particles)
    /\ \A j \in 1..Len(particles) : particles'[j].id = particles[j].id

C16_ShrinksOnlyByCompaction ==
    \/ StoreKept
    \/ /\ phase = "compact"
       /\ simulationRunning
       /\ Len(particles) > CompactionLimit
       /\ particles' = SelectSeq(particles, LAMBDA p : p.active)

\* C16: a step removes or reorders records of the store only when it is the
\* compaction of a running frame whose store, after the step and the
\* auto-fuel, is larger than the limit; the store is then left with exactly
\* its active records in their order. Every other step keeps each record in
\* its place.
C16_CompactionOnly == [][C16_ShrinksOnlyByCompaction]_vars

\* A compaction has erased the records this frame's reactions consumed.
C16_Witness ==
    /\ phase = "age"
    /\ simulationRunning
    /\ ConsumedSet # {}
    /\ \A j \in 1..Len(particles) :
          particles[j].active /\ particles[j].id \notin ConsumedSet

\* C17: when a running frame has detected its fusions, the flashes it
\* created are as many as the reactions its updateParticles call carried
\* out, and fusionCount has grown by that number.
C17_FlashPerReaction ==
    (phase = "fuel" /\ pc = "idle") =>
        /\ newFlashes = reactions
        /\ frames = 0 => fusionCount = reactions

\* C18: the particle snapshot of a render call holds one record per active
\* particle of the store, so its length is the particle count passed in the
\* same call.
C18_SnapshotPerActive ==
    (rendered.kind = "render" /\ phase = "ui") =>
        /\ Len(rendered.gpuParticles) = CountTotalActive(particles)
        /\ Len(rendered.gpuParticles) = rendered.numParticles

\* C19: two executions that start from the same store and parameters and
\* make the same calls hold identical stores after every call.
C19_ReplaysAgree ==
    Len(replay) = 2 => replay[1].particles = replay[2].particles

\* The store holds an active record of `type` created after the seeding.
HasProduct(type) ==
    \E j \in 1..Len(particles) :
        /\ particles[j].type = type
        /\ particles[j].active
        /\ particles[j].id > 2 * FuelPairs

\* C20: from 100 Deuterium and 100 Tritium, with the default fraction 0.02
\* and no wall loss, a first updateParticles call whose expectedFusions is
\* >= 1 carries out at least one reaction, whatever the draws: a new Helium
\* and a new Neutron are in the store when it returns and the frame creates
\* at least one flash.
C20_IgnitionFires ==
    (pc = "idle" /\ steps = 1 /\ FGe(expectedFusions, F(1, 0))) =>
        /\ reactions >= 1
        /\ HasProduct("HELIUM")
        /\ HasProduct("NEUTRON")
        /\ phase = "fuel" => (newFlashes >= 1 /\ Len(activeFlashes) >= 1
                                 /\ fusionCount >= 1)

\* The frame has detected the fusions of a step with expectedFusions >= 1
\* in which one sampled pair was skipped and one reacted.
C20_Witness ==
    /\ phase = "fuel"
    /\ pc = "idle"
    /\ FGe(expectedFusions, F(1, 0))
    /\ numFusions = 2
    /\ skipped = 1
    /\ reactions = 1
    /\ newFlashes = 1

\* The signed distance of a record.
SdfOf(p) == torusSDF(p.x, p.y, p.z)

\* C21: a particle that checkBoundaryCollision3D finds outside the torus
\* (signed distance > 0) is left at a signed distance of at most the edge
\* buffer, 0.01.
C21_PushedBackInside ==
    (lastCall.kind = "checkBoundaryCollision3D"
       /\ FGt(SdfOf(lastCall.before), FZero)) =>
        FLe(SdfOf(particles[1]), F(1, -2))

\* The store of the step's start holds no active Deuterium or no active Tritium.
FuelMissingAtStart ==
    \/ CountActive(stepStart, "DEUTERIUM") = 0
    \/ CountActive(stepStart, "TRITIUM") = 0

\* C22: a step that starts with no active Deuterium or no active Tritium
\* carries out no reaction: nothing is consumed, no product is buffered and
\* the store keeps its length.
C22_NoFuelNoFusion ==
    (steps >= 1 /\ FuelMissingAtStart) =>
        /\ reactions = 0
        /\ consumed = <<>>
        /\ newParticles = <<>>
        /\ numFusions = 0
        /\ Len(particles) = Len(stepStart)

\* A second step has returned that began with active Tritium and Helium but
\* no active Deuterium, under a raised fusionBoost or a zero temperature.
C22_Witness ==
    /\ pc = "idle"
    /\ steps = 2
    /\ CountActive(stepStart, "DEUTERIUM") = 0
    /\ CountActive(stepStart, "TRITIUM") >= 1
    /\ CountActive(stepStart, "HELIUM") >= 1

Neutral(p) == FLt(FAbs(p.charge), F(1, -30))

\* Lines 225-228: the increment for the offset (dx, dy, dz) of length dist.
PullFor(P, dx, dy, dz, dist, sdt) ==
    IF FGt(dist, F(1, -8))
    THEN {<<FMul(FMul(FNeg(pull), dx), sdt), FMul(FMul(FNeg(pull), dy), sdt),
            FMul(FMul(FNeg(pull), dz), sdt)>> :
             pull \in {FDiv(P.coreAttractionStrength, FAdd(dist, F(1, -2)))}}
    ELSE {<<>>}

PullOffset(P, dx, dy, dz, sdt) == PullFor(P, dx, dy, dz, Norm3(dx, dy, dz), sdt)

PullTo(P, p, c, sdt) ==
    PullOffset(P, FSub(p.x, c[1]), FSub(p.y, c[2]), FSub(p.z, c[3]), sdt)

\* The core-attraction velocity increment of lines 218-229 at the position
\* of p: a set holding the increment, or <<>> if none is applied.
PullIncrement(P, p, sdt) == PullTo(P, p, projectToCenterline(p.x, p.y, p.z), sdt)

DriftFor(P, p, R, sdt) ==
    IF FGt(R, F(1, -6))
    THEN {<<FMul(FMul(P.driftOmega, FDiv(FNeg(p.z), R)), sdt),
            FMul(FMul(P.driftOmega, FDiv(p.x, R)), sdt)>>}
    ELSE {<<>>}

\* The toroidal drift velocity increment of lines 231-237 at the position of
\* p: a set holding the increment, or <<>> if none is applied.
DriftIncrement(P, p, sdt) == DriftFor(P, p, RadiusXZ(p.x, p.z), sdt)

\* v plus the component n of an increment, if the increment is applied.
Plus(v, inc, n) == IF inc = <<>> THEN v ELSE FAdd(v, inc[n])

\* The force stage leaves p where it is, with the velocity of `base` plus the
\* core-attraction increment and then the drift increment.
ReceivesIncrements(p, base) ==
    \E a \in {applyMagneticForce3D(prm, p, scaledDt)},
       b \in {base},
       pull \in PullIncrement(prm, p, scaledDt),
       drift \in DriftIncrement(prm, p, scaledDt) :
        /\ a.x = p.x /\ a.y = p.y /\ a.z = p.z
        /\ a.vx = Plus(Plus(b.vx, pull, 1), drift, 1)
        /\ a.vy = Plus(b.vy, pull, 2)
        /\ a.vz = Plus(Plus(b.vz, pull, 3), drift, 2)

\* The sweep is at an active record.
AtActive == pc = "sweep" /\ i <= Len(particles) /\ particles[i].active

\* C23 as stated: the force stage gives the active record the sweep is at,
\* neutral or not, the core-attraction and the drift increment.
C23_AllReceiveIncrements ==
    AtActive =>
        ReceivesIncrements(particles[i],
                           IF Neutral(particles[i]) THEN particles[i]
                           ELSE LorentzKick(particles[i], TotalForce(particles[i]),
                                            scaledDt))

\* C23: the force stage gives the active record the sweep is at, if it is
\* charged, the core-attraction increment and then the drift increment on
\* top of its Lorentz and mirror kick, and leaves a neutral record as it is.
C23_ChargedReceiveIncrements ==
    AtActive =>
        IF Neutral(particles[i])
        THEN applyMagneticForce3D(prm, particles[i], scaledDt) = particles[i]
        ELSE ReceivesIncrements(particles[i],
                                LorentzKick(particles[i], TotalForce(particles[i]),
                                            scaledDt))

\* The sweep of a second step is at an active Neutron off the centreline,
\* after an active Helium off the centreline.
C23_Witness ==
    /\ AtActive
    /\ steps = 2
    /\ particles[i].type = "NEUTRON"
    /\ PullIncrement(prm, particles[i], scaledDt) # {<<>>}
    /\ DriftIncrement(prm, particles[i], scaledDt) # {<<>>}
    /\ \E h \in 1..(i - 1) :
         /\ particles[h].active /\ particles[h].type = "HELIUM"
         /\ DriftIncrement(prm, particles[h], scaledDt) # {<<>>}

\* The force of lines 242-263 on p1 from p2, scaled: <<fx, fy, fz>>.
CoulombVector(P, p1, p2) ==
    LET dx == FSub(p2.x, p1.x)
        dy == FSub(p2.y, p1.y)
        dz == FSub(p2.z, p1.z)
        r == Floor6(Norm3(dx, dy, dz))
        forceMagnitude ==
            FDiv(FMul(FMul(COULOMB_CONSTANT, p1.charge), p2.charge), FMul(r, r))
        screeningFactor == FExp(FDiv(FNeg(r), debyeLength(P)))
        Scaled(d) ==
            FMul(FMul(FDiv(FMul(forceMagnitude, d), r), screeningFactor), F(1, -6))
    IN  <<Scaled(dx), Scaled(dy), Scaled(dz)>>

\* r is p with the velocity increment (f / p.mass) * sdt.
KickedBy(p, r, f, sdt) ==
    r = [p EXCEPT !.vx = FAdd(p.vx, FMul(FDiv(f[1], p.mass), sdt)),
                  !.vy = FAdd(p.vy, FMul(FDiv(f[2], p.mass), sdt)),
                  !.vz = FAdd(p.vz, FMul(FDiv(f[3], p.mass), sdt))]

\* r1 and r2 are p1 and p2 after one force f on p1 and -f on p2.
Reciprocal(p1, p2, r1, r2, f, sdt) ==
    /\ KickedBy(p1, r1, f, sdt)
    /\ KickedBy(p2, r2, <<FNeg(f[1]), FNeg(f[2]), FNeg(f[3])>>, sdt)

\* Record i of the sweep as the inner loop of lines 111-116 finds it at j.
RECURSIVE FirstBefore(_)
FirstBefore(j) ==
    IF j <= i + 1 THEN applyMagneticForce3D(prm, particles[i], scaledDt)
    ELSE IF particles[j - 1].active
         THEN applyCoulombForce(prm, FirstBefore(j - 1), particles[j - 1], scaledDt)[1]
         ELSE FirstBefore(j - 1)

C24_IterationPairs ==
    (pc = "sweep" /\ i <= Len(particles)) =>
        \A j \in 1..Len(particles) \ {i} :
            IF prm.enableCoulomb /\ particles[i].active /\ j > i /\ particles[j].active
            THEN \E p1 \in {FirstBefore(j)} :
                   Reciprocal(p1, particles[j], FirstBefore(j + 1), particles'[j],
                              CoulombVector(prm, p1, particles[j]), scaledDt)
            ELSE particles'[j] = particles[j]

\* C24: the iteration of an active record i applies applyCoulombForce, when
\* enableCoulomb is set, once to i and each active record after it, with a
\* force f on the one and -f on the other, and changes no other record; the
\* iteration of an inactive record, or any iteration with enableCoulomb
\* false, changes no other record.
C24_CoulombPairsOnce == [][C24_IterationPairs]_vars

\* With enableCoulomb set the sweep has passed the first record, the second
\* is inactive and untouched, and the third has been set in motion.
C24_Witness ==
    /\ pc = "sweep"
    /\ steps = 1
    /\ i = 2
    /\ prm.enableCoulomb
    /\ ~particles[2].active
    /\ particles[2] = stepStart[2]
    /\ particles[3].vy # stepStart[3].vy

\* Every flash of the list has an age in [0, 1).
AgesInUnit(fs) ==
    \A j \in 1..Len(fs) : FGe(fs[j].age, FZero) /\ FLt(fs[j].age, F(1, 0))

\* What is handed to the renderer, and what is kept between frames, is young.
C25_RenderedYoung ==
    /\ rendered.kind = "render" => AgesInUnit(rendered.gpuFlashes)
    /\ AgesInUnit(activeFlashes)

\* The list `fls` with the age of every flash raised by inc, less the first
\* `gone` flashes, which reach age 1, is the list of the next frame.
AgedBy(fls, inc, gone) ==
    /\ Len(activeFlashes') = Len(fls) - gone
    /\ \A j \in 1..gone : FGe(FAdd(fls[j].age, inc), F(1, 0))
    /\ \A j \in (gone + 1)..Len(fls) :
          /\ activeFlashes'[j - gone].age = FAdd(fls[j].age, inc)
          /\ FGe(activeFlashes'[j - gone].age, fls[j].age)
          /\ FLt(activeFlashes'[j - gone].age, F(1, 0))

\* A frame appends one flash of age 0 per new fusion, then adds deltaTime /
\* flashDuration to every age and erases exactly the flashes that reach 1.
C25_AgeStep ==
    \E created \in {[j \in 1..(fusionCount' - fusionCount) |-> [age |-> FZero]]} :
    \E gone \in 0..Len(activeFlashes) :
        AgedBy([j \in 1..(Len(activeFlashes) + Len(created)) |->
                  IF j <= Len(activeFlashes) THEN activeFlashes[j]
                  ELSE created[j - Len(activeFlashes)]],
               FDiv(dt', flashDuration), gone)

\* The n-th flash created is no longer in the list (flashes are appended at
\* the end and erased oldest first).
FlashGone(n) == fusionCount >= n /\ Len(activeFlashes) <= fusionCount - n

\* C25: a flash is created with age 0, each frame adds deltaTime /
\* flashDuration to its age, it is erased in the first frame in which its
\* age reaches 1, every flash handed to the renderer has an age in [0, 1),
\* and while frames with deltaTime > 0 keep coming every flash is
\* eventually erased.
C25_FlashLifecycle ==
    /\ []C25_RenderedYoung
    /\ [][C25_AgeStep]_vars
    /\ []<><<FGt(dt', FZero)>>_vars =>
          \A n \in 1..MaxFlashEvents : (fusionCount >= n) ~> FlashGone(n)

\* The first flash has been erased while a later one, past half its life,
\* is still shown.
C25_Witness ==
    /\ fusionCount = 2
    /\ Len(activeFlashes) = 1
    /\ FGe(activeFlashes[1].age, F(5, -1))
    /\ rendered.kind = "render"
    /\ Len(rendered.gpuFlashes) = 1
\* The active fuel of each species.
ActiveD == CountActive(particles, "DEUTERIUM")
ActiveT == CountActive(particles, "TRITIUM")

\* C26: without wall loss no step of the application changes the difference
\* of the active Deuterium and Tritium counts: a reaction consumes one of
\* each, Manual Refuel and auto-fuel inject equal batches, so the counts the
\* seeding made equal are equal in every state.
C26_Balance == ~FGt(prm.wallLossProbability, FZero) => ActiveD = ActiveT

\* A frame has burnt fuel, a frame has refuelled by the button and the
\* auto-fuel has injected.
C26_Witness ==
    /\ ~FGt(prm.wallLossProbability, FZero)
    /\ phase = "ui"
    /\ frames = 2
    /\ calls > 0
    /\ FGt(fuelCooldown, FZero)
    /\ \E j \in 1..Len(particles) : particles[j].type = "HELIUM"
    /\ ActiveD = ActiveT

\* C27: with auto-fuel enabled and the parameters as constructed, the
\* particle count every frame hands to the renderer is at most
\* GPURayTracer::MAX_PARTICLES.
C27_CountWithinBuffer ==
    (autoFuel /\ prm = DefaultParams /\ rendered.kind = "render") =>
        rendered.numParticles <= MAX_PARTICLES

\* The store grew by one injectFuel(fuelBatchSize, fuelBatchSize) call and
\* is otherwise as it was.
RefuelledOnly ==
    /\ Len(particles') = Len(particles) + 2 * fuelBatchSize
    /\ SubSeq(particles', 1, Len(particles)) = particles
    /\ \A j \in (Len(particles) + 1)..Len(particles') :
          particles'[j].active /\ particles'[j].type \in {"DEUTERIUM", "TRITIUM"}

\* A step of the loop while the simulation is and stays paused.
PausedStep ==
    /\ pc' = "idle"
    /\ steps' = steps
    /\ fuelCooldown' = fuelCooldown
    /\ phase' \in {"ui", "age"}
    /\ particles' # particles => (phase = "ui" /\ phase' = "ui" /\ RefuelledOnly)

C29_Step ==
    /\ simulationRunning => simulationRunning'
    /\ (~simulationRunning /\ simulationRunning') =>
          (phase = "ui" /\ phase' = "ui" /\ Len(particles') = Len(particles))
    /\ (~simulationRunning /\ ~simulationRunning') => PausedStep

\* C29: the simulation starts paused and becomes running only by the Start
\* Injection button; while it is paused no frame calls updateParticles, the
\* auto-fuel or the compaction, and the store changes only by Manual Refuel;
\* once running it is never paused again.
C29_PausedUntilStart ==
    /\ ~simulationRunning /\ steps = 0
    /\ [][C29_Step]_vars

\* A paused frame that was refuelled by the button has been rendered, and
\* then the simulation was started.
C29_Witness ==
    /\ simulationRunning
    /\ frames = 1
    /\ steps = 0
    /\ phase = "ui"
    /\ Len(particles) = 2 * NumSeed + 2 * fuelBatchSize
    /\ rendered.kind = "render"

\* The step is an injection by the auto-fuel.
AutoInjects == phase = "fuel" /\ Len(particles') > Len(particles)

C28_Step ==
    AutoInjects =>
        /\ simulationRunning
        /\ autoFuel
        /\ pc = "idle"
        /\ ActiveD < fuelThreshold \/ ActiveT < fuelThreshold
        /\ lastCall.kind = "autoFuel" => FGe(lastCall.elapsed, fuelCooldownTime)

Mission == sim.challenge
MissionNext == sim'.challenge

\* The step starts a mission afresh.
Started ==
    /\ MissionNext.state = "running"
    /\ MissionNext.score = FZero
    /\ MissionNext.phaseIndex = 0
    /\ MissionNext.phaseProgress = FZero
    /\ MissionNext.integrity = F(1, 0)
    /\ MissionNext.timeLeft = SumDurations(Len(MISSION_PHASE_TEMPLATES))

\* The step clears the last phase of a running mission.
WonNow ==
    /\ Mission.state = "running" /\ MissionNext.state = "won"
    /\ Mission.phaseIndex = Len(MISSION_PHASE_TEMPLATES) - 1
    /\ MissionNext.phaseIndex = Len(MISSION_PHASE_TEMPLATES)

\* The step fails a running mission.
LostNow ==
    /\ Mission.state = "running" /\ MissionNext.state = "lost"
    /\ FLe(MissionNext.integrity, FZero) \/ FLe(MissionNext.timeLeft, FZero)

\* The step puts a mission that is not running back to the sandbox.
ResetNow ==
    /\ Mission.state # "running"
    /\ MissionNext = createChallengeState

\* The phases are cleared one at a time, in the templates' order, each by a
\* running mission, and the controller is set to the next phase's mode.
PhaseOrder ==
    MissionNext.phaseIndex # Mission.phaseIndex =>
        \/ MissionNext.phaseIndex = 0
        \/ /\ Mission.state = "running"
           /\ MissionNext.phaseIndex = Mission.phaseIndex + 1
           /\ MissionNext.phaseProgress = FZero
           /\ MissionNext.state = "running" =>
                 sim'.mode = MISSION_PHASE_TEMPLATES[MissionNext.phaseIndex + 1].mode

\* A mission that is over and stays over keeps its result.
Frozen ==
    (Mission.state \in {"won", "lost"} /\ MissionNext.state = Mission.state) =>
        /\ MissionNext.score = Mission.score
        /\ MissionNext.phaseIndex = Mission.phaseIndex
        /\ MissionNext.phaseProgress = Mission.phaseProgress
        /\ MissionNext.integrity = Mission.integrity
        /\ MissionNext.timeLeft = Mission.timeLeft

C30_StepAsStated ==
    /\ MissionNext.state # Mission.state =>
          \/ Mission.state # "running" /\ Started
          \/ WonNow
          \/ LostNow
    /\ PhaseOrder
    /\ Frozen

C30_StepAmended ==
    /\ MissionNext.state # Mission.state =>
          \/ Mission.state # "running" /\ Started
          \/ WonNow
          \/ LostNow
          \/ ResetNow
    /\ PhaseOrder
    /\ Frozen

\* C30: the mission state changes only from sandbox to running by
\* startChallenge, from running to won and from running to lost; it is won
\* only after the three phases were cleared in order, lost only when the
\* integrity or the time left reaches 0 while running, and while it is won or
\* lost _updateMission changes no score, phase index, phase progress,
\* integrity or time left until startChallenge is called again.
C30_MissionAsStated == [][C30_StepAsStated]_vars

\* C30 as the code has it: the same, and reseed outside a running mission
\* puts a won or lost mission back to the sandbox.
C30_MissionStates == [][C30_StepAmended]_vars

\* A mission was won and frames have gone by since.
C30_Witness ==
    /\ sim.kind = "sim"
    /\ Mission.state = "won"
    /\ Mission.phaseIndex = Len(MISSION_PHASE_TEMPLATES)
    /\ Mission.summary = "won"
    /\ FLt(Mission.flash, F(5, -1))

\* The two ways a mission is lost.
C30_LostByIntegrity ==
    sim.kind = "sim" /\ Mission.state = "lost" /\ FLe(Mission.integrity, FZero)
       /\ FGt(Mission.timeLeft, FZero)
C30_LostByTimer ==
    sim.kind = "sim" /\ Mission.state = "lost" /\ FGt(Mission.integrity, FZero)
       /\ FLe(Mission.timeLeft, FZero)

====
